---- MODULE Spec2Model ----
(***************************************************************************)
(* WiktionaryViz backend: the byte-offset corpus index                     *)
(* (backend/build_index.py, backend/api_routes/word_data.py), the          *)
(* descendant hierarchy (backend/services/wiktionary_io.py) and the        *)
(* phonological aligner (backend/services/aligner.py).                     *)
(*                                                                         *)
(* Text (words, language codes, index keys) is a sequence of one-character *)
(* strings, so that lower-casing, concatenation and prefix/suffix tests    *)
(* are computed and not assumed.                                           *)
(***************************************************************************)
EXTENDS Integers, Sequences, FiniteSets, TLC

VARIABLES
    \* ---- aligner (services/aligner.py) ----
    seg1,       \* first segment list handed to align_segments
    seg2,       \* second segment list
    aligned,    \* the list of pairs align_segments returned
    apc,        \* "input" before the call, "done" after it
    dresp,      \* the response of /phonetic-drift-detailed, if it was the caller
    \* ---- corpus index (build_index.py, constants.py, word_data.py) ----
    corpus,     \* the JSONL corpus file: its lines, in file order
    bpc,        \* build_index_from_jsonl: "idle", "scan" (in the loop), "done",
                \* "raised" (left by an exception)
    run,        \* how many times build_index_from_jsonl has been started
    file_pos,   \* position of the open corpus file (jsonl_file.tell())
    locals,     \* the local variables of the running build
    files,      \* the artifacts on disk: word index and leaderboards
    prev_files, \* the artifacts as the previous run left them
    index,      \* constants.index, the in-memory index of the server
    lresp,      \* the last /word-data request and its response
    \* ---- descendant hierarchy (services/wiktionary_io.py) ----
    tpc,        \* top-level build_descendant_hierarchy call: "idle", "run", "done"
    stack,      \* its activation records, the running one last
    visited,    \* the visited set the recursion shares
    tree,       \* the tree the top-level call returned
    \* ---- the routes (api_routes/descendants.py, word_data.py, phonology.py) ----
    resp,       \* the last request a route handled and its response
    \* ---- requests in flight at the same time ----
    calls       \* per request: the top-level build_descendant_hierarchy call it
                \* makes, with its own pc, activation records, visited set and tree

alignVars == <<seg1, seg2, aligned, apc, dresp>>

indexVars == <<corpus, bpc, run, file_pos, locals, files, prev_files, index, lresp>>

treeVars == <<tpc, stack, visited, tree>>

serveVars == <<resp>>

concVars == <<calls>>

vars == <<alignVars, indexVars, treeVars, serveVars, concVars>>

\* Python's None (a missing side of a pair, a missing feature vector).
None == "<None>"

\* Python's float("inf") in the dp grid.
Inf == -1

RECURSIVE SumSeq(_)
SumSeq(s) == IF s = <<>> THEN 0 ELSE Head(s) + SumSeq(Tail(s))

Max2(x, y) == IF x >= y THEN x ELSE y

(***************************************************************************)
(* Bounds of the model.                                                    *)
(***************************************************************************)
\* Longest segment list handed to the aligner.
MaxSegs == 2
\* Most lines of a corpus file.
MaxLines == 3
\* Most lines of a corpus file whose leaderboards are looked at.
MaxAggLines == 4
\* Size of the leaderboards (TOP_N is 100 in build_index.py; scaled down so
\* that a corpus of MaxAggLines lines overflows a heap).
TopN == 3
\* Depth at which build_descendant_hierarchy stops recursing.
DepthCap == 3
\* Depth of recursion at which the interpreter raises RecursionError
\* (sys.getrecursionlimit() is 1000; scaled down, above the depth an acyclic
\* graph of the corpora below can reach).
RecursionLimit == 6
\* Number of features of the feature table (len(ft.names); panphon's real
\* table has more, the aligner only uses the number).
NumFeatures == 3

(***************************************************************************)
(* The feature table (panphon FeatureTable), as the aligner consumes it:   *)
(* ft.fts(seg) is a vector over the features, or None for a segment the    *)
(* table does not know.  "t" and "ts" are two segments with the same       *)
(* vector, "d" differs from "t" in one feature, "a" from "t" in all, and   *)
(* "x" is unknown to the table.                                            *)
(***************************************************************************)
Segments == {"t", "ts", "d", "a", "x"}

\* ft.fts(seg) of a segment the table does not know (None; falsy).
NoVector == <<>>

FeatureNames == 1..NumFeatures

fts(seg) ==
    CASE seg = "t"  -> [k \in FeatureNames |-> -1]
      [] seg = "ts" -> [k \in FeatureNames |-> -1]
      [] seg = "d"  -> [k \in FeatureNames |-> IF k = 1 THEN 1 ELSE -1]
      [] seg = "a"  -> [k \in FeatureNames |-> IF k = NumFeatures THEN 0 ELSE 1]
      [] OTHER      -> NoVector

\* Segment.differing_specs: the features on which two vectors differ.
differing_specs(f1, f2) == {k \in FeatureNames : f1[k] # f2[k]}

(***************************************************************************)
(* constants.py: the cost constants.                                       *)
(***************************************************************************)
MAX_FEATURE_DIFFS == NumFeatures
InsertionCostTwice == 2 * (MAX_FEATURE_DIFFS + 1)
INSERTION_COST == MAX_FEATURE_DIFFS + 1
DeletionCostAsymmetric == MAX_FEATURE_DIFFS + 2
DeletionCostFlat == MAX_FEATURE_DIFFS
DELETION_COST == MAX_FEATURE_DIFFS + 1
UnknownCostDear == 3 * MAX_FEATURE_DIFFS
UNKNOWN_COST == MAX_FEATURE_DIFFS

(***************************************************************************)
(* aligner.py: phonological_cost.                                          *)
(***************************************************************************)
PhonologicalCostNoIdentity(a, b) ==
    IF a = None \/ b = None
    THEN (IF a = None THEN INSERTION_COST ELSE DELETION_COST)
    ELSE IF fts(a) = NoVector \/ fts(b) = NoVector
         THEN UNKNOWN_COST
         ELSE Cardinality(differing_specs(fts(a), fts(b)))

phonological_cost(a, b) ==
    IF a = b
    THEN 0
    ELSE IF a = None \/ b = None
         THEN (IF a = None THEN INSERTION_COST ELSE DELETION_COST)
         ELSE IF fts(a) = NoVector \/ fts(b) = NoVector
              THEN UNKNOWN_COST
              ELSE Cardinality(differing_specs(fts(a), fts(b)))

(***************************************************************************)
(* aligner.py: align_segments.  The grid is filled forwards: cell (i, j)   *)
(* relaxes (i+1, j+1), then (i+1, j), then (i, j+1), each with a strict    *)
(* comparison, for i in range(m+1), j in range(n+1).                       *)
(***************************************************************************)
\* Python's  x > y  and  x + c  on numbers that may be float("inf").
GreaterThan(x, y) == y # Inf /\ (x = Inf \/ x > y)
Plus(x, c) == IF x = Inf THEN Inf ELSE x + c

\* The two grids before the loops: dp all inf but dp[0][0], back all None.
InitGrid(m, n) ==
    [dp   |-> [i \in 0..m |-> [j \in 0..n |->
                  IF i = 0 /\ j = 0 THEN 0 ELSE Inf]],
     back |-> [i \in 0..m |-> [j \in 0..n |-> <<>>]]]

RelaxNonStrict(g, i, j, ti, tj, cost) ==
    IF ~GreaterThan(Plus(g.dp[i][j], cost), g.dp[ti][tj])
    THEN [dp   |-> [g.dp EXCEPT ![ti][tj] = Plus(g.dp[i][j], cost)],
          back |-> [g.back EXCEPT ![ti][tj] = <<i, j>>]]
    ELSE g

RelaxOverwrite(g, i, j, ti, tj, cost) ==
    [dp   |-> [g.dp EXCEPT ![ti][tj] = Plus(g.dp[i][j], cost)],
     back |-> [g.back EXCEPT ![ti][tj] = <<i, j>>]]

\* One guarded assignment  if dp[ti][tj] > dp[i][j] + cost: ...
Relax(g, i, j, ti, tj, cost) ==
    IF GreaterThan(g.dp[ti][tj], Plus(g.dp[i][j], cost))
    THEN [dp   |-> [g.dp EXCEPT ![ti][tj] = Plus(g.dp[i][j], cost)],
          back |-> [g.back EXCEPT ![ti][tj] = <<i, j>>]]
    ELSE g

\* The body of the inner loop for one cell (i, j).
RelaxCell(g, s1, s2, i, j) ==
    LET m  == Len(s1)
        n  == Len(s2)
        g1 == IF i < m /\ j < n
              THEN Relax(g, i, j, i + 1, j + 1,
                         phonological_cost(s1[i + 1], s2[j + 1]))
              ELSE g
        g2 == IF i < m THEN Relax(g1, i, j, i + 1, j, DELETION_COST) ELSE g1
        g3 == IF j < n THEN Relax(g2, i, j, i, j + 1, INSERTION_COST) ELSE g2
    IN  g3

\* The two nested loops, cell number k = i * (n+1) + j onwards.  (The test
\* on dp[0][0], which no assignment changes, makes the grid of one cell be
\* computed before the next cell is entered.)
RECURSIVE FillGrid(_, _, _, _)
FillGrid(g, s1, s2, k) ==
    LET m  == Len(s1)
        n  == Len(s2)
        g1 == RelaxCell(g, s1, s2, k \div (n + 1), k % (n + 1))
    IN  IF k >= (m + 1) * (n + 1)
        THEN g
        ELSE IF g1.dp[0][0] = 0 THEN FillGrid(g1, s1, s2, k + 1) ELSE g1

Grid(s1, s2) == FillGrid(InitGrid(Len(s1), Len(s2)), s1, s2, 0)

\* dp[m][n] after the loops: the cost of the alignment the backpointers hold.
total_cost(s1, s2) == Grid(s1, s2).dp[Len(s1)][Len(s2)]

\* The while loop that walks the backpointers from (m, n); the list it
\* appends to comes out last pair first.
RECURSIVE Backtrace(_, _, _, _, _)
Backtrace(g, s1, s2, i, j) ==
    IF i > 0 \/ j > 0
    THEN LET pi == g.back[i][j][1]
             pj == g.back[i][j][2]
             a  == IF i - pi = 1 THEN s1[pi + 1] ELSE None
             b  == IF j - pj = 1 THEN s2[pj + 1] ELSE None
         IN  <<<<a, b>>>> \o Backtrace(g, s1, s2, pi, pj)
    ELSE <<>>

NotReversed(s) == s

\* aligned[::-1]
Reversed(s) == [k \in 1..Len(s) |-> s[Len(s) + 1 - k]]

align_segments(s1, s2) ==
    Reversed(Backtrace(Grid(s1, s2), s1, s2, Len(s1), Len(s2)))

(***************************************************************************)
(* aligner.py: symbol; api_routes/phonology.py: phonetic_drift_detailed.   *)
(* ft.ipa_segs has already cut the two IPA strings into segments.          *)
(***************************************************************************)
symbol(val) ==
    CASE val = 1  -> "+"
      [] val = 0  -> "0"
      [] val = -1 -> "-"
      [] OTHER    -> "?"

\* The name diff before the first assignment to it.
Unbound == [from |-> None, to |-> None, status |-> "unbound", changes |-> <<>>]

DiffSwapped(s1, s2, prev) ==
    IF s1 # None /\ s2 # None
    THEN IF fts(s1) = NoVector \/ fts(s2) = NoVector
         THEN [from |-> s1, to |-> s2, status |-> "unknown", changes |-> <<>>]
         ELSE [from |-> s1, to |-> s2, status |-> "changes",
               changes |-> [feat \in differing_specs(fts(s1), fts(s2)) |->
                               <<symbol(fts(s2)[feat]), symbol(fts(s1)[feat])>>]]
    ELSE IF s1 # None
         THEN [from |-> s1, to |-> None, status |-> "insertion", changes |-> <<>>]
         ELSE IF s2 # None
              THEN [from |-> None, to |-> s2, status |-> "deletion", changes |-> <<>>]
              ELSE prev

\* The body of the for loop up to diffs.append: the record for one pair; a
\* pair without either side leaves diff as the iteration before left it.
Diff(s1, s2, prev) ==
    IF s1 # None /\ s2 # None
    THEN IF fts(s1) = NoVector \/ fts(s2) = NoVector
         THEN [from |-> s1, to |-> s2, status |-> "unknown", changes |-> <<>>]
         ELSE [from |-> s1, to |-> s2, status |-> "changes",
               changes |-> [feat \in differing_specs(fts(s1), fts(s2)) |->
                               <<symbol(fts(s1)[feat]), symbol(fts(s2)[feat])>>]]
    ELSE IF s1 # None
         THEN [from |-> s1, to |-> None, status |-> "deletion", changes |-> <<>>]
         ELSE IF s2 # None
              THEN [from |-> None, to |-> s2, status |-> "insertion", changes |-> <<>>]
              ELSE prev

\* The for loop over the alignment from pair k on; reading the unbound name
\* raises, and the handler answers 500.
RECURSIVE Diffs(_, _, _, _)
Diffs(alignment, k, prev, diffs) ==
    IF k > Len(alignment)
    THEN [status |-> 200, alignment |-> diffs]
    ELSE LET diff == Diff(alignment[k][1], alignment[k][2], prev)
         IN  IF diff = Unbound
             THEN [status |-> 500, alignment |-> <<>>]
             ELSE Diffs(alignment, k + 1, diff, Append(diffs, diff))

phonetic_drift_detailed(segs1, segs2) ==
    Diffs(align_segments(segs1, segs2), 1, Unbound, <<>>)

NoDrift == [status |-> 0, alignment |-> <<>>]

(***************************************************************************)
(* Text.                                                                   *)
(***************************************************************************)
\* One character of str.lower().
LowerChar(c) ==
    CASE c = "A" -> "a"
      [] c = "B" -> "b"
      [] c = "C" -> "c"
      [] c = "D" -> "d"
      [] c = "X" -> "x"
      [] OTHER   -> c

\* str.lower()
lower(s) == [k \in 1..Len(s) |-> LowerChar(s[k])]

\* The code point of a character (Python orders str by code point).
CharCode(c) ==
    CASE c = "A" -> 65
      [] c = "B" -> 66
      [] c = "C" -> 67
      [] c = "D" -> 68
      [] c = "X" -> 88
      [] c = " " -> 32
      [] c = "_" -> 95
      [] c = "a" -> 97
      [] c = "b" -> 98
      [] c = "c" -> 99
      [] c = "d" -> 100
      [] c = "e" -> 101
      [] c = "s" -> 115
      [] c = "x" -> 120
      [] c = "y" -> 121
      [] OTHER   -> 122

\* s < t on str.
RECURSIVE StrLess(_, _)
StrLess(s, t) ==
    IF t = <<>> THEN FALSE
    ELSE IF s = <<>> THEN TRUE
    ELSE IF Head(s) # Head(t) THEN CharCode(Head(s)) < CharCode(Head(t))
    ELSE StrLess(Tail(s), Tail(t))

\* x < y on the tuples (metric, word, lang_code) the heaps hold.
TupleLess(x, y) ==
    \/ x[1] < y[1]
    \/ x[1] = y[1] /\ StrLess(x[2], y[2])
    \/ x[1] = y[1] /\ x[2] = y[2] /\ StrLess(x[3], y[3])

\* str.strip()
RECURSIVE StripLeft(_)
StripLeft(s) ==
    IF s # <<>> /\ Head(s) = " " THEN StripLeft(Tail(s)) ELSE s

RECURSIVE StripRight(_)
StripRight(s) ==
    IF s # <<>> /\ s[Len(s)] = " " THEN StripRight(SubSeq(s, 1, Len(s) - 1)) ELSE s

strip(s) == StripRight(StripLeft(s))

\* The first place of character ch in s, 0 when it is not in s.
FirstIndex(s, ch) ==
    IF \E k \in 1..Len(s) : s[k] = ch
    THEN CHOOSE k \in 1..Len(s) : s[k] = ch /\ \A j \in 1..(k - 1) : s[j] # ch
    ELSE 0

\* The last place of character ch in s, 0 when it is not in s.
LastIndex(s, ch) ==
    IF \E k \in 1..Len(s) : s[k] = ch
    THEN CHOOSE k \in 1..Len(s) : s[k] = ch /\ \A j \in (k + 1)..Len(s) : s[j] # ch
    ELSE 0

\* s.split(" ")[0]
FirstToken(s) ==
    IF FirstIndex(s, " ") = 0 THEN s ELSE SubSeq(s, 1, FirstIndex(s, " ") - 1)

StartsWith(s, prefix) ==
    Len(s) >= Len(prefix) /\ SubSeq(s, 1, Len(prefix)) = prefix

EndsWith(s, suffix) ==
    Len(s) >= Len(suffix) /\ SubSeq(s, Len(s) - Len(suffix) + 1, Len(s)) = suffix

(***************************************************************************)
(* The corpus file.  A line is a JSON object (kind "entry") or text that   *)
(* json.loads rejects (kind "garbage").  A missing "word" or "lang_code"   *)
(* reads as the empty string (entry.get(..., "")).                         *)
(***************************************************************************)
\* None where a str is expected.
NoneStr == <<None>>

\* An etymology template: args["2"], args["3"] and args["tr"], NoneStr when
\* missing.
TemplateL(a2, a3, tr) == [a2 |-> a2, a3 |-> a3, tr |-> tr]

Template(a3, tr) == TemplateL(NoneStr, a3, tr)

\* A head template: its name and args["head"] (NoneStr when missing).
HeadTemplate(name, head) == [name |-> name, head |-> head]

\* A JSON object of the corpus: the fields the backend reads.  translations
\* is the length of the list, descendants the "text" of each element, ipa
\* the "ipa" of the sounds (NoneStr when no sound has one), etymology_text
\* whether the key is present, expansion the value of the key "expansion"
\* (NoneStr when the object has none).
EntryRecord(w, l, p, t, h, et, ipa, ntr, desc) ==
    [kind |-> "entry", word |-> w, lang_code |-> l, pos |-> p,
     etymology_templates |-> t, head_templates |-> h, etymology_text |-> et,
     ipa |-> ipa, translations |-> ntr, descendants |-> desc,
     expansion |-> NoneStr]

WithExpansion(entry, text) == [entry EXCEPT !.expansion = text]

EntryT(w, l, p, t) == EntryRecord(w, l, p, t, <<>>, FALSE, NoneStr, 0, <<>>)

Entry(w, l, p) == EntryT(w, l, p, <<>>)

GarbageLine ==
    [kind |-> "garbage", word |-> <<>>, lang_code |-> <<>>, pos |-> "",
     etymology_templates |-> <<>>, head_templates |-> <<>>,
     etymology_text |-> FALSE, ipa |-> NoneStr, translations |-> 0,
     descendants |-> <<>>, expansion |-> NoneStr]

TemplateLen(t) ==
    20 + (IF t.a2 = NoneStr THEN 0 ELSE 7 + Len(t.a2))
       + (IF t.a3 = NoneStr THEN 0 ELSE Len(t.a3))
       + (IF t.tr = NoneStr THEN 0 ELSE 8 + Len(t.tr))

HeadTemplateLen(h) == 30 + (IF h.head = NoneStr THEN 0 ELSE 9 + Len(h.head))

\* Bytes of a line in the file, its newline included: the text of the
\* object grows with the text of its fields.
LineLen(line) ==
    IF line.kind = "garbage"
    THEN 5
    ELSE 40 + Len(line.word) + Len(line.lang_code)
            + (IF line.pos \in {"phrase", "Phrase"} THEN 6 ELSE 4)
            + SumSeq([k \in 1..Len(line.etymology_templates) |->
                         TemplateLen(line.etymology_templates[k])])
            + SumSeq([k \in 1..Len(line.head_templates) |->
                         HeadTemplateLen(line.head_templates[k])])
            + (IF line.etymology_text THEN 21 ELSE 0)
            + (IF line.ipa = NoneStr THEN 0 ELSE 23 + Len(line.ipa))
            + 9 * line.translations
            + SumSeq([k \in 1..Len(line.descendants) |->
                         12 + Len(line.descendants[k])])
            + (IF line.expansion = NoneStr THEN 0 ELSE 17 + Len(line.expansion))

\* Byte offset at which line i of the file starts (i = Len + 1: its end).
RECURSIVE LineOffset(_, _)
LineOffset(c, i) ==
    IF i <= 1 THEN 0 ELSE LineOffset(c, i - 1) + LineLen(c[i - 1])

LineStarts(c) == {LineOffset(c, i) : i \in 1..Len(c)}

\* seek(off); readline(): the line that starts at off, else the tail of a
\* line or the empty read at the end of the file, neither of which parses.
LineAt(c, off) ==
    IF off \in LineStarts(c)
    THEN c[CHOOSE i \in 1..Len(c) : LineOffset(c, i) = off]
    ELSE GarbageLine

(***************************************************************************)
(* The index as a dict: pairs <<key, offset>> in insertion order (the      *)
(* order json.dump writes and index.items() iterates).                     *)
(***************************************************************************)
Keys(d) == {d[k][1] : k \in 1..Len(d)}

Get(d, key) == d[CHOOSE k \in 1..Len(d) : d[k][1] = key][2]

\* d[key] = value
Put(d, key, value) ==
    IF key \in Keys(d)
    THEN [k \in 1..Len(d) |-> IF d[k][1] = key THEN <<key, value>> ELSE d[k]]
    ELSE Append(d, <<key, value>>)

\* d.update(other)
RECURSIVE Update(_, _)
Update(d, other) ==
    IF other = <<>> THEN d
    ELSE Update(Put(d, Head(other)[1], Head(other)[2]), Tail(other))

(***************************************************************************)
(* heapq, seen through what the build observes: the heap holds a multiset  *)
(* of tuples, heappop removes the least.  The list is kept ascending.      *)
(***************************************************************************)
RECURSIVE heappush(_, _)
heappush(h, x) ==
    IF h = <<>> THEN <<x>>
    ELSE IF TupleLess(x, Head(h)) THEN <<x>> \o h
    ELSE <<Head(h)>> \o heappush(Tail(h), x)

heappop(h) == Tail(h)

SortedAscending(h) == h

\* sorted(heap, reverse=True)
SortedReverse(h) == [k \in 1..Len(h) |-> h[Len(h) + 1 - k]]

(***************************************************************************)
(* build_index.py: build_index_from_jsonl.                                 *)
(***************************************************************************)
TOP_N == TopN

SIGN_LANG_CODES ==
    { <<"a","s","e">>, <<"i","c","l">>, <<"i","s","g">>, <<"g","s","g">>,
      <<"f","s","l">>, <<"d","g","s">>, <<"b","f","i">>, <<"s","f","b">>,
      <<"v","g","t">>, <<"r","s","l">>, <<"t","s","l">> }

\* entry.get("pos", "").lower(): the parts of speech of the corpora are in
\* lower case but for "Phrase".
lower_pos(pos) == IF pos = "Phrase" THEN "phrase" ELSE pos

\* f"{word}_{lang_code}"
index_key(word, lang_code) == word \o <<"_">> \o lang_code

\* The locals as build_index_from_jsonl sets them up on entry, whatever an
\* earlier call left behind.
StaleLocals(earlier) ==
    [earlier EXCEPT !.word_lang_index = <<>>, !.record_count = 0]

FreshLocals(earlier) ==
    [word_lang_index        |-> <<>>,
     record_count           |-> 0,
     longest_words_heap     |-> <<>>,
     most_translations_heap |-> <<>>,
     all_entry_keys         |-> {},
     descendant_links       |-> <<>>]

NoLocals ==
    [word_lang_index        |-> <<>>,
     record_count           |-> 0,
     longest_words_heap     |-> <<>>,
     most_translations_heap |-> <<>>,
     all_entry_keys         |-> {},
     descendant_links       |-> <<>>]

\* if index_key not in word_lang_index: word_lang_index[index_key] = byte_offset
RecordOffsetLastWins(idx, key, byte_offset) == Put(idx, key, byte_offset)

RecordOffset(idx, key, byte_offset) ==
    IF key \in Keys(idx) THEN idx ELSE Put(idx, key, byte_offset)

PushDropGreatest(h, x) ==
    LET pushed == heappush(h, x)
    IN  IF Len(pushed) > TOP_N THEN SubSeq(pushed, 1, Len(pushed) - 1) ELSE pushed

\* heappush, then heappop when the heap has grown past TOP_N.
PushBounded(h, x) ==
    LET pushed == heappush(h, x)
    IN  IF Len(pushed) > TOP_N THEN heappop(pushed) ELSE pushed

\* descendant_links[key].append(child_key) on the defaultdict(list).
AppendLink(links, key, child_key) ==
    Put(links, key,
        Append(IF key \in Keys(links) THEN Get(links, key) ELSE <<>>, child_key))

\* The body of the loop over the descendants for one "text": a reference
\* "<lang>: <word> <gloss>" adds the edge key -> child_key.
LinkDescendant(links, key, text) ==
    LET colon      == FirstIndex(text, ":")
        lang       == lower(strip(SubSeq(text, 1, colon - 1)))
        child_word == FirstToken(strip(SubSeq(text, colon + 1, Len(text))))
    IN  IF colon # 0 /\ child_word # <<>>
        THEN AppendLink(links, key, index_key(lower(child_word), lang))
        ELSE links

RECURSIVE LinkDescendants(_, _, _)
LinkDescendants(links, key, texts) ==
    IF texts = <<>>
    THEN links
    ELSE LinkDescendants(LinkDescendant(links, key, Head(texts)), key, Tail(texts))

\* The body of the try block for a line that json.loads accepted.
IndexEntry(st, entry, byte_offset) ==
    LET word      == lower(entry.word)
        lang_code == lower(entry.lang_code)
        key       == index_key(word, lang_code)
    IN  IF word # <<>> /\ lang_code # <<>>
        THEN [st EXCEPT
                !.word_lang_index = RecordOffset(@, key, byte_offset),
                !.all_entry_keys = @ \cup {key},
                !.longest_words_heap =
                    IF lang_code \notin SIGN_LANG_CODES /\ lower_pos(entry.pos) # "phrase"
                    THEN PushBounded(@, <<Len(word), word, lang_code>>)
                    ELSE @,
                !.most_translations_heap =
                    IF entry.translations > 0
                    THEN PushBounded(@, <<entry.translations, word, lang_code>>)
                    ELSE @,
                !.descendant_links = LinkDescendants(@, key, entry.descendants),
                !.record_count = @ + 1]
        ELSE [st EXCEPT !.record_count = @ + 1]

\* jsonl_file.readline() on a line whose bytes are not valid UTF-8.
readline_raises(line) == line.kind = "not_utf8"

\* One iteration of the while loop on the line read at byte_offset; a
\* json.JSONDecodeError skips the line.
IndexLine(st, line, byte_offset) ==
    IF line.kind = "entry" THEN IndexEntry(st, line, byte_offset) ELSE st

\* The artifacts written after the loop.
longest_words_output(st) ==
    LET sorted == SortedReverse(st.longest_words_heap)
    IN  [k \in 1..Len(sorted) |->
            [word |-> sorted[k][2], lang_code |-> sorted[k][3], length |-> sorted[k][1]]]

most_translations_output(st) ==
    LET sorted == SortedReverse(st.most_translations_heap)
    IN  [k \in 1..Len(sorted) |->
            [word |-> sorted[k][2], lang_code |-> sorted[k][3],
             translation_count |-> sorted[k][1]]]

\* count_descendants_cached under lru_cache: cache is what the decorator has
\* stored so far (a call that returns stores its value), depth the number
\* of calls of the function on the interpreter's stack.  A call deeper than
\* the recursion limit raises RecursionError, which nothing catches.
MemoizeOneMore(cache, key, value) == Put(cache, key, value + 1)

\* The decorator stores the value a call returned.
Memoize(cache, key, value) == Put(cache, key, value)

RECURSIVE count_descendants_cached(_, _, _, _)
RECURSIVE SumOverChildren(_, _, _, _, _, _)
count_descendants_cached(links, root_key, cache, depth) ==
    IF root_key \in Keys(cache)
    THEN [value |-> Get(cache, root_key), cache |-> cache, raised |-> FALSE]
    ELSE IF depth > RecursionLimit
         THEN [value |-> 0, cache |-> cache, raised |-> TRUE]
         ELSE LET children == IF root_key \in Keys(links)
                              THEN Get(links, root_key) ELSE <<>>
                  r == SumOverChildren(links, root_key, children, cache, depth, 0)
              IN  IF r.raised
                  THEN r
                  ELSE [value  |-> r.value,
                        cache  |-> Memoize(r.cache, root_key, r.value),
                        raised |-> FALSE]

\* sum(count_descendants_cached(child) + 1 for child in children
\*     if child != root_key)
SumOverChildren(links, root_key, children, cache, depth, acc) ==
    IF children = <<>>
    THEN [value |-> acc, cache |-> cache, raised |-> FALSE]
    ELSE IF Head(children) = root_key
         THEN SumOverChildren(links, root_key, Tail(children), cache, depth, acc)
         ELSE LET r == count_descendants_cached(links, Head(children), cache, depth + 1)
              IN  IF r.raised
                  THEN r
                  ELSE SumOverChildren(links, root_key, Tail(children), r.cache,
                                       depth, acc + r.value + 1)

\* key.rsplit("_", 1)
rsplit_key(key) ==
    <<SubSeq(key, 1, LastIndex(key, "_") - 1),
      SubSeq(key, LastIndex(key, "_") + 1, Len(key))>>

\* The loop over all_entry_keys (a set: some order) that fills the heap of
\* descendant counts; a RecursionError leaves the loop and the function.
RECURSIVE CountAll(_, _, _, _)
CountAll(links, keys, cache, heap) ==
    IF keys = {}
    THEN [heap |-> heap, raised |-> FALSE]
    ELSE LET key == CHOOSE k \in keys : TRUE
             r   == count_descendants_cached(links, key, cache, 1)
         IN  IF r.raised
             THEN [heap |-> heap, raised |-> TRUE]
             ELSE CountAll(links, keys \ {key}, r.cache,
                           IF r.value > 0
                           THEN PushBounded(heap, <<r.value, rsplit_key(key)[1],
                                                    rsplit_key(key)[2]>>)
                           ELSE heap)

descendant_count_heap(st) ==
    CountAll(st.descendant_links, st.all_entry_keys, <<>>, <<>>)

most_descendants_output(st) ==
    LET sorted == SortedReverse(descendant_count_heap(st).heap)
    IN  [k \in 1..Len(sorted) |->
            [word |-> sorted[k][2], lang_code |-> sorted[k][3],
             descendant_count |-> sorted[k][1]]]

\* The files after the function has ended: the word index and the first
\* two leaderboards are written before the descendants are counted, the
\* third leaderboard only when the counting returned.
SavedFiles(st, before) ==
    [saved             |-> TRUE,
     index             |-> st.word_lang_index,
     longest_words     |-> longest_words_output(st),
     most_translations |-> most_translations_output(st),
     most_descendants  |-> IF descendant_count_heap(st).raised
                           THEN before.most_descendants
                           ELSE most_descendants_output(st)]

NoFiles ==
    [saved |-> FALSE, index |-> <<>>, longest_words |-> <<>>,
     most_translations |-> <<>>, most_descendants |-> <<>>]

(***************************************************************************)
(* api_routes/word_data.py: get_word_data, against the in-memory index idx *)
(* and the corpus file c.                                                  *)
(***************************************************************************)
get_word_data(idx, c, word, lang_code) ==
    LET key == index_key(lower(word), lower(lang_code))
    IN  IF key \notin Keys(idx)
        THEN [word |-> word, lang_code |-> lang_code, status |-> 404,
              data |-> GarbageLine]
        ELSE LET line == LineAt(c, Get(idx, key))
             IN  IF line.kind = "entry"
                 THEN [word |-> word, lang_code |-> lang_code, status |-> 200,
                       data |-> line]
                 ELSE [word |-> word, lang_code |-> lang_code, status |-> 500,
                       data |-> GarbageLine]

NoResponse ==
    [word |-> <<>>, lang_code |-> <<>>, status |-> 0, data |-> GarbageLine]

(***************************************************************************)
(* services/wiktionary_io.py: build_descendant_hierarchy, against the      *)
(* in-memory index and the corpus file.  The recursion is kept as a stack  *)
(* of activation records [word, lang_code, depth, pos, results]: pos is    *)
(* the place of the for loop in index.items().                             *)
(***************************************************************************)
\* The depth cap (max_depth is 50 in wiktionary_io.py; scaled down so that
\* a corpus of MaxLines lines reaches it).
max_depth == DepthCap

_normalize_for_match(s) ==
    IF s = NoneStr \/ s = <<>> THEN NoneStr ELSE lower(strip(s))

\* The loop over the templates of an entry: does one cite the target?
Cites(entry, target_norm) ==
    \E k \in 1..Len(entry.etymology_templates) :
        \/ _normalize_for_match(entry.etymology_templates[k].a3) = target_norm
        \/ _normalize_for_match(entry.etymology_templates[k].tr) = target_norm

\* if lang_code and not key.endswith(f"_{lang_code.lower()}"): continue
FilteredOut(key, lang_code) ==
    /\ lang_code # NoneStr /\ lang_code # <<>>
    /\ ~EndsWith(key, <<"_">> \o lower(lang_code))

Frame(word, lang_code, depth) ==
    [word |-> word, lang_code |-> lang_code, depth |-> depth, pos |-> 1,
     results |-> <<>>, expansion |-> NoneStr]

Top == stack[Len(stack)]

ReturningAtEndOnly(f, idx) == f.pos > Len(idx)

\* The activation record has nothing left to do: the depth cap stopped it on
\* entry, or its for loop is over.
Returning(f, idx) == f.depth >= max_depth \/ f.pos > Len(idx)

\* The index key under the for loop of f is a descendant to recurse into.
Matches(f, idx, c, seen) ==
    LET key   == idx[f.pos][1]
        entry == LineAt(c, idx[f.pos][2])
    IN  /\ ~FilteredOut(key, f.lang_code)
        /\ key \notin seen
        /\ entry.kind = "entry"
        /\ Cites(entry, _normalize_for_match(f.word))

\* except Exception: ... continue  -- the place of the loop after a record
\* that could not be read at place k.
AbortScan(k, idx) == Len(idx) + 1

AfterReadFailure(k, idx) == k + 1

MarkNothing(seen, key) == seen

\* visited.add(key)
Mark(seen, key) == seen \cup {key}

ReusedVisited(leftover) == leftover

\* if visited is None: visited = set()  -- the set of a top-level call,
\* whatever the sets of other calls (leftover) hold.
NewVisited(leftover) == {}

\* One iteration of the for loop of the running activation record of stk:
\* the key is skipped, or it is marked visited and the call recurses into it.
ScanKeyStep(stk, seen, idx, c) ==
    LET top   == stk[Len(stk)]
        entry == LineAt(c, idx[top.pos][2])
    IN  IF Matches(top, idx, c, seen)
        THEN [stack   |-> Append(stk,
                             [Frame(entry.word, entry.lang_code, top.depth + 1)
                                 EXCEPT !.expansion = entry.expansion]),
              visited |-> Mark(seen, idx[top.pos][1])]
        ELSE [stack   |-> [stk EXCEPT ![Len(stk)].pos = @ + 1],
              visited |-> seen]

\* The running activation record of stk returns {"name": word, "children":
\* results}: to its caller, which appends the node and goes on with its
\* loop, or as the tree of the request tr.
ReturnStep(stk, tr) ==
    LET top == stk[Len(stk)]
    IN  IF Len(stk) = 1
        THEN [stack |-> <<>>,
              tree  |-> [tr EXCEPT !.result =
                            [name |-> top.word, children |-> top.results]],
              tpc   |-> "done"]
        ELSE [stack |-> [SubSeq(stk, 1, Len(stk) - 1)
                            EXCEPT ![Len(stk) - 1] =
                                [@ EXCEPT
                                    !.results = Append(@,
                                        [word      |-> top.word,
                                         lang_code |-> top.lang_code,
                                         expansion |-> top.expansion,
                                         children  |-> top.results]),
                                    !.pos = @ + 1]],
              tree  |-> tr,
              tpc   |-> "run"]

\* build_descendant_hierarchy as a function: the children found and the
\* visited set as the call leaves it (the set is shared by the recursion).
RECURSIVE build_descendant_hierarchy(_, _, _, _, _, _)
RECURSIVE ScanIndex(_, _, _, _, _, _, _, _)
build_descendant_hierarchy(word, lang_code, depth, seen, idx, c) ==
    IF depth >= max_depth
    THEN [children |-> <<>>, visited |-> seen]
    ELSE ScanIndex(word, lang_code, depth, seen, idx, c, 1, <<>>)

\* The for loop over index.items() from place k on.
ScanIndex(word, lang_code, depth, seen, idx, c, k, results) ==
    IF k > Len(idx)
    THEN [children |-> results, visited |-> seen]
    ELSE LET key   == idx[k][1]
             entry == LineAt(c, idx[k][2])
         IN  IF FilteredOut(key, lang_code) \/ key \in seen
             THEN ScanIndex(word, lang_code, depth, seen, idx, c, k + 1, results)
             ELSE IF entry.kind # "entry"
             THEN ScanIndex(word, lang_code, depth, seen, idx, c,
                            AfterReadFailure(k, idx), results)
             ELSE IF ~Cites(entry, _normalize_for_match(word))
             THEN ScanIndex(word, lang_code, depth, seen, idx, c, k + 1, results)
             ELSE LET sub == build_descendant_hierarchy(entry.word, entry.lang_code,
                                 depth + 1, Mark(seen, key), idx, c)
                  IN  ScanIndex(word, lang_code, depth, sub.visited, idx, c, k + 1,
                                Append(results,
                                       [word      |-> entry.word,
                                        lang_code |-> entry.lang_code,
                                        expansion |-> entry.expansion,
                                        children  |-> sub.children]))

(***************************************************************************)
(* services/wiktionary_io.py: find_root_ancestor.  The result carries the  *)
(* word returned, the number of records read and of steps walked, and      *)
(* whether an exception left the function (json.loads on a record that     *)
(* does not parse).                                                        *)
(***************************************************************************)
Truthy(str) == str # NoneStr /\ str # <<>>

HeadOfOrWord(current) == current.word

\* The for loop over head_templates: args["head"] of the first template
\* named "head", the word when it has none; None without such a template.
HeadOf(current) ==
    LET hts   == current.head_templates
        named == {k \in 1..Len(hts) : hts[k].name = "head"}
    IN  IF named = {}
        THEN NoneStr
        ELSE LET ht == hts[CHOOSE k \in named : \A j \in named : k <= j]
             IN  IF Truthy(ht.head) THEN ht.head ELSE current.word

HasAnyRecord(next_entry) == TRUE

\* if "etymology_text" in next_entry
HasEtymologyText(next_entry) == next_entry.etymology_text

\* The for loop over the index from place k on: the first key that starts
\* with the head and whose entry has an etymology text.
RECURSIVE NextEntry(_, _, _, _, _)
NextEntry(head, idx, c, k, reads) ==
    IF k > Len(idx)
    THEN [found |-> FALSE, entry |-> GarbageLine, reads |-> reads, raised |-> FALSE]
    ELSE IF ~StartsWith(idx[k][1], lower(head) \o <<"_">>)
    THEN NextEntry(head, idx, c, k + 1, reads)
    ELSE LET next_entry == LineAt(c, idx[k][2])
         IN  IF next_entry.kind # "entry"
             THEN [found |-> FALSE, entry |-> GarbageLine, reads |-> reads + 1,
                   raised |-> TRUE]
             ELSE IF HasEtymologyText(next_entry)
             THEN [found |-> TRUE, entry |-> next_entry, reads |-> reads + 1,
                   raised |-> FALSE]
             ELSE NextEntry(head, idx, c, k + 1, reads + 1)

\* The while loop from the entry current on.  heads are the heads added to
\* visited, in the order they were added, and trail the entries current
\* has been, the first one the entry the function was called on.
RECURSIVE WalkHeads(_, _, _, _, _, _)
WalkHeads(current, heads, trail, reads, idx, c) ==
    LET head  == HeadOf(current)
        seen  == {heads[k] : k \in 1..Len(heads)}
        steps == Len(trail) - 1
    IN  IF ~Truthy(head) \/ head \in seen
        THEN [word |-> current.word, reads |-> reads, steps |-> steps,
              raised |-> FALSE, heads |-> heads, trail |-> trail]
        ELSE LET n == NextEntry(head, idx, c, 1, reads)
             IN  IF n.raised
                 THEN [word |-> NoneStr, reads |-> n.reads, steps |-> steps,
                       raised |-> TRUE, heads |-> Append(heads, head),
                       trail |-> trail]
                 ELSE IF ~n.found
                 THEN [word |-> current.word, reads |-> n.reads, steps |-> steps,
                       raised |-> FALSE, heads |-> Append(heads, head),
                       trail |-> trail]
                 ELSE WalkHeads(n.entry, Append(heads, head),
                                Append(trail, n.entry), n.reads, idx, c)

find_root_ancestor(entry, idx, c) == WalkHeads(entry, <<>>, <<entry>>, 0, idx, c)

\* find_root_ancestor was not called.
NotCalled ==
    [word |-> NoneStr, reads |-> 0, steps |-> 0, raised |-> FALSE,
     heads |-> <<>>, trail |-> <<>>]

(***************************************************************************)
(* api_routes/descendants.py: the three routes, against the in-memory      *)
(* index idx and the corpus file c.  A response carries the request, the   *)
(* status and the fields of the body the route fills.                      *)
(***************************************************************************)
Response(endpoint, word, lang_code) ==
    [endpoint |-> endpoint, word |-> word, lang_code |-> lang_code,
     status |-> 200, root |-> NoneStr, root_lang |-> NoneStr,
     ancestor |-> NotCalled, children |-> <<>>, paths |-> <<>>,
     estimator |-> "", distance |-> "", chain |-> <<>>, data |-> GarbageLine]

NoRequest == [Response("", NoneStr, NoneStr) EXCEPT !.status = 0]

\* mmap.mmap(f.fileno(), 0, access=mmap.ACCESS_READ) raises ValueError on an
\* empty file.
mmap_raises(c) == Len(c) = 0

\* The loop over the templates: the last one with a truthy args["3"], as a
\* place in the list; 0 when there is none.
deepest_tpl(entry) ==
    LET with3 == {k \in 1..Len(entry.etymology_templates) :
                     Truthy(entry.etymology_templates[k].a3)}
    IN  IF with3 = {} THEN 0 ELSE CHOOSE k \in with3 : \A j \in with3 : j <= k

\* tr or cand_word
TrOrWord(tpl) == IF Truthy(tpl.tr) THEN tpl.tr ELSE tpl.a3

\* The first index key that starts with the word and "_"; NoneStr (None)
\* when there is none.
_find_index_key_for(idx, w) ==
    LET hits == {k \in 1..Len(idx) : StartsWith(idx[k][1], lower(w) \o <<"_">>)}
    IN  IF hits = {}
        THEN NoneStr
        ELSE idx[CHOOSE k \in hits : \A j \in hits : k <= j][1]

get_descendant_tree(idx, c, word, lang_code) ==
    LET key   == index_key(lower(word), lower(lang_code))
        r     == Response("/descendant-tree", word, lang_code)
        entry == LineAt(c, Get(idx, key))
        tpl   == entry.etymology_templates[deepest_tpl(entry)]
        anc   == find_root_ancestor(entry, idx, c)
    IN  IF key \notin Keys(idx)
        THEN [r EXCEPT !.status = 404]
        ELSE IF mmap_raises(c) \/ entry.kind # "entry"
        THEN [r EXCEPT !.status = 500]
        ELSE IF deepest_tpl(entry) # 0
        THEN [r EXCEPT
                !.root = TrOrWord(tpl),
                !.children = build_descendant_hierarchy(TrOrWord(tpl), NoneStr, 0,
                                 {}, idx, c).children]
        ELSE IF anc.raised
        THEN [r EXCEPT !.status = 500, !.ancestor = anc]
        ELSE [r EXCEPT
                !.root = anc.word,
                !.ancestor = anc,
                !.children = build_descendant_hierarchy(anc.word, NoneStr, 0,
                                 {}, idx, c).children]

descendant_tree_from_root(idx, c, word, lang_code) ==
    LET r == Response("/descendant-tree-from-root", word, lang_code)
    IN  IF mmap_raises(c)
        THEN [r EXCEPT !.status = 500]
        ELSE [r EXCEPT
                !.root = word,
                !.children = build_descendant_hierarchy(word, lang_code, 0, {},
                                 idx, c).children]

\* walk(node, acc) for every node of children: one path per leaf.  A node
\* of the tree has no "name": node.get("word") or node.get("name") is the
\* word, or None when the word is empty.
RECURSIVE walk(_, _)
walk(children, acc) ==
    IF children = <<>>
    THEN <<>>
    ELSE LET node    == Head(children)
             cur     == [word      |-> IF Truthy(node.word) THEN node.word ELSE NoneStr,
                         lang_code |-> node.lang_code,
                         expansion |-> node.expansion]
             new_acc == Append(acc, cur)
         IN  (IF node.children = <<>> THEN <<new_acc>> ELSE walk(node.children, new_acc))
             \o walk(Tail(children), acc)

\* k_for_root.split("_", 1)[1]
AfterFirstUnderscore(key) == SubSeq(key, FirstIndex(key, "_") + 1, Len(key))

descendant_paths_from_root(idx, c, word, lang_code) ==
    LET r         == Response("/descendant-paths-from-root", word, lang_code)
        candidate == index_key(lower(word), lower(lang_code))
        orig_key  == IF Truthy(lang_code) /\ candidate \in Keys(idx)
                     THEN candidate
                     ELSE _find_index_key_for(idx, word)
        read      == IF orig_key = NoneStr THEN GarbageLine
                     ELSE LineAt(c, Get(idx, orig_key))
        has_entry == orig_key # NoneStr /\ read.kind = "entry"
        tpl       == read.etymology_templates[deepest_tpl(read)]
        anc       == find_root_ancestor(read, idx, c)
        root_word == IF ~has_entry THEN word
                     ELSE IF deepest_tpl(read) # 0 THEN TrOrWord(tpl)
                     ELSE IF anc.raised \/ ~Truthy(anc.word) THEN word
                     ELSE anc.word
        tpl_lang  == IF has_entry /\ deepest_tpl(read) # 0 /\ Truthy(tpl.a2)
                     THEN tpl.a2 ELSE NoneStr
        built     == build_descendant_hierarchy(root_word, lang_code, 0, {}, idx, c)
        k_for_root == _find_index_key_for(idx, root_word)
        root_lang == IF k_for_root # NoneStr
                     THEN AfterFirstUnderscore(k_for_root) ELSE tpl_lang
        root_node == [word |-> root_word,
                      lang_code |-> IF Truthy(root_lang) THEN root_lang ELSE lang_code]
    IN  IF mmap_raises(c)
        THEN [r EXCEPT !.status = 500]
        ELSE [r EXCEPT
                !.root = root_word,
                !.root_lang = root_lang,
                !.ancestor = IF has_entry /\ deepest_tpl(read) = 0 THEN anc ELSE NotCalled,
                !.children = built.children,
                !.paths = IF built.children # <<>>
                          THEN walk(built.children, <<root_node>>)
                          ELSE <<<<root_node>>>>]

(***************************************************************************)
(* api_routes/word_data.py: ai_estimate_ipa and build_ancestry_chain;      *)
(* api_routes/phonology.py: /ancestry-chain.  The estimator is the         *)
(* environment: "no_key" (AsyncOpenAI() finds no API key and raises),      *)
(* "error" and "timeout" (the call raises), "ok" (the call answers).       *)
(***************************************************************************)
Estimators == {"ok", "no_key", "error", "timeout"}

\* What the estimator answers when it does.
EstimatedIpa == <<"[", "e", "]">>

\* The result of a call that may raise.
Returned(value) == [raised |-> FALSE, value |-> value]

Raised == [raised |-> TRUE, value |-> NoneStr]

\* load_dotenv(); client = AsyncOpenAI() come before the try block.
ai_estimate_ipa(estimator) ==
    IF estimator = "no_key"
    THEN Raised
    ELSE IF estimator = "ok" THEN Returned(EstimatedIpa) ELSE Returned(NoneStr)

\* get_word_data_or_ai: the record of the key, or a stub for a key the
\* index does not have; json.loads raises on a record that does not parse.
get_word_data_or_ai(idx, c, word, lang_code) ==
    LET key == index_key(lower(word), lower(lang_code))
    IN  IF key \in Keys(idx)
        THEN IF mmap_raises(c) \/ LineAt(c, Get(idx, key)).kind # "entry"
             THEN Raised
             ELSE Returned(LineAt(c, Get(idx, key)))
        ELSE Returned(EntryRecord(word, lang_code, "", <<>>, <<>>, FALSE, NoneStr,
                                  0, <<>>))

IsPhonemic(ipa) == ipa[1] = "/" /\ ipa[Len(ipa)] = "/"

\* The loop over node["sounds"]: the first IPA that is not between slashes.
real_ipa(node) ==
    IF Truthy(node.ipa) /\ ~IsPhonemic(node.ipa) THEN node.ipa ELSE NoneStr

phonemic_ipa(node) ==
    IF Truthy(node.ipa) /\ IsPhonemic(node.ipa) THEN node.ipa ELSE NoneStr

\* The drift score of a hop: 0, or dst.feature_edit_distance of two IPA
\* strings (kept as the pair it is computed from).
NoDistance == [computed |-> FALSE, from |-> NoneStr, to |-> NoneStr]

\* dst.feature_edit_distance answers or raises.
Distances == {"ok", "raises"}

DriftUnguarded(prev_ipa, ancestor_ipa, distance) ==
    [computed |-> TRUE, from |-> prev_ipa, to |-> ancestor_ipa]

\* drift_score = 0; if prev_ipa and ancestor_ipa: try: the distance;
\* except Exception: drift_score = 0
drift_score(prev_ipa, ancestor_ipa, distance) ==
    IF Truthy(prev_ipa) /\ Truthy(ancestor_ipa) /\ distance = "ok"
    THEN [computed |-> TRUE, from |-> prev_ipa, to |-> ancestor_ipa]
    ELSE NoDistance

\* One link of the chain: the node is resolved, its IPA is taken from the
\* record or asked of the estimator.
ChainLink(idx, c, word, lang_code, estimator) ==
    LET got == get_word_data_or_ai(idx, c, word, lang_code)
        est == ai_estimate_ipa(estimator)
    IN  IF got.raised
        THEN Raised
        ELSE IF Truthy(real_ipa(got.value))
        THEN Returned([word |-> word, lang_code |-> lang_code,
                       ipa |-> real_ipa(got.value),
                       phonemic_ipa |-> phonemic_ipa(got.value),
                       estimated |-> FALSE, drift |-> NoDistance])
        ELSE IF est.raised
        THEN Raised
        ELSE Returned([word |-> word, lang_code |-> lang_code,
                       ipa |-> est.value,
                       phonemic_ipa |-> phonemic_ipa(got.value),
                       estimated |-> TRUE, drift |-> NoDistance])

\* The loop over the templates of the root node from template k on.
RECURSIVE ChainFrom(_, _, _, _, _, _, _)
ChainFrom(idx, c, templates, k, estimator, distance, chain) ==
    IF k > Len(templates)
    THEN Returned(chain)
    ELSE IF ~(Truthy(templates[k].a2) /\ Truthy(templates[k].a3))
    THEN ChainFrom(idx, c, templates, k + 1, estimator, distance, chain)
    ELSE LET link == ChainLink(idx, c, templates[k].a3, templates[k].a2, estimator)
         IN  IF link.raised
             THEN Raised
             ELSE ChainFrom(idx, c, templates, k + 1, estimator, distance,
                            Append(chain,
                                   [link.value EXCEPT !.drift =
                                       drift_score(chain[Len(chain)].ipa,
                                                   link.value.ipa, distance)]))

build_ancestry_chain(idx, c, word, lang_code, estimator, distance) ==
    LET got  == get_word_data_or_ai(idx, c, word, lang_code)
        root == ChainLink(idx, c, word, lang_code, estimator)
    IN  IF root.raised
        THEN Raised
        ELSE ChainFrom(idx, c, got.value.etymology_templates, 1, estimator,
                       distance, <<root.value>>)

\* GET /ancestry-chain: an exception of build_ancestry_chain is not caught.
ancestry_chain(idx, c, word, lang_code, estimator, distance) ==
    LET r     == [Response("/ancestry-chain", word, lang_code)
                     EXCEPT !.estimator = estimator, !.distance = distance]
        built == build_ancestry_chain(idx, c, word, lang_code, estimator, distance)
    IN  IF built.raised
        THEN [r EXCEPT !.status = 500]
        ELSE [r EXCEPT !.chain = built.value]

\* The whole loop of build_index_from_jsonl over a corpus file.
RECURSIVE ScanFrom(_, _, _)
ScanFrom(st, c, i) ==
    IF i > Len(c)
    THEN st
    ELSE ScanFrom(IndexLine(st, c[i], LineOffset(c, i)), c, i + 1)

BuiltFiles(c) == SavedFiles(ScanFrom(NoLocals, c, 1), NoFiles)

(***************************************************************************)
(* Inputs.                                                                 *)
(***************************************************************************)
SeqsUpTo(S, n) == UNION {[1..k -> S] : k \in 0..n}

SegLists == SeqsUpTo(Segments, MaxSegs)

\* Longer lists: long enough for a shifted alignment (one deletion, the rest
\* matched one place on, one insertion) to compete with substitutions.
MaxLongSegs == 3

LongSegments == {"t", "a", "x"}

LongSegLists == SeqsUpTo(LongSegments, MaxLongSegs)

\* Lines a corpus is made of: entries that share a key up to case, words
\* and language codes with the separator in them, an entry without a word,
\* a sign-language entry, a phrase, and a line that is not JSON.
CorpusLines ==
    { Entry(<<"a">>, <<"c">>, "noun"),
      Entry(<<"A">>, <<"C">>, "verb"),
      Entry(<<"a", "_", "b">>, <<"c">>, "noun"),
      Entry(<<"a">>, <<"b", "_", "c">>, "noun"),
      Entry(<<>>, <<"c">>, "noun"),
      Entry(<<"b", "c">>, <<"a", "s", "e">>, "noun"),
      Entry(<<"b", "b">>, <<"c">>, "phrase"),
      GarbageLine }

Corpora == SeqsUpTo(CorpusLines, MaxLines)

QueryWords == {<<"a">>, <<"A">>, <<"a", "_", "b">>, <<"b", "b">>, <<"x">>}
QueryLangs == {<<"c">>, <<"C">>, <<"b", "_", "c">>}

\* Calls of build_index_from_jsonl in one behaviour.
MaxRuns == 2

\* Words of 5, 9 and 3 letters.
Word5 == <<"a", "a", "a", "a", "a">>
Word9 == <<"b", "b", "b", "b", "b", "b", "b", "b", "b">>
Word3 == <<"c", "c", "c">>

\* The text "<lang>: <word>" of a descendant, and one with a gloss.
DescText(lang, word) == lang \o <<":", " ">> \o word

DescTextGloss(lang, word) == lang \o <<":">> \o word \o <<" ", "e">>

\* Lines of the corpora the leaderboards are computed from.  The entries of
\* Word5, Word9 and Word3 make a diamond (Word5 lists Word9 and Word3, both
\* list "d", which has no entry); a second entry of Word9 lists Word5, which
\* closes a cycle of length two; one entry lists itself and has a
\* reference without a colon.
AggLines ==
    { EntryRecord(Word5, <<"x">>, "noun", <<>>, <<>>, FALSE, NoneStr, 2,
                  <<DescText(<<"x">>, Word9), DescTextGloss(<<"X">>, Word3)>>),
      EntryRecord(Word9, <<"x">>, "noun", <<>>, <<>>, FALSE, NoneStr, 0,
                  <<DescText(<<"x">>, <<"D">>)>>),
      EntryRecord(Word3, <<"x">>, "noun", <<>>, <<>>, FALSE, NoneStr, 1,
                  <<DescText(<<"x">>, <<"d">>)>>),
      EntryRecord(Word9, <<"x">>, "verb", <<>>, <<>>, FALSE, NoneStr, 3,
                  <<DescText(<<"x">>, Word5)>>),
      EntryRecord(<<"d">>, <<"x">>, "noun", <<>>, <<>>, FALSE, NoneStr, 1,
                  <<DescText(<<"x">>, <<"d">>), <<"x", " ", "d">>>>) }

AggCorpora == SeqsUpTo(AggLines, MaxAggLines)

\* Lines of the corpora the longest-words heap is fed from: words of 5 and
\* 3 letters, a word of 9 letters in a sign language (the code in upper
\* case) and a phrase of 9 letters (the part of speech capitalised).  A
\* file may hold a line several times.
MaxBoardLines == 5

BoardLines ==
    { Entry(Word5, <<"x">>, "noun"),
      Entry(Word3, <<"x">>, "verb"),
      Entry(Word9, <<"A", "S", "E">>, "noun"),
      Entry(Word9, <<"x">>, "Phrase") }

BoardCorpora == SeqsUpTo(BoardLines, MaxBoardLines)

\* Lines of the corpora with lines that do not decode: two entries, an
\* object cut off before its closing brace (its text still holds a word, a
\* translation and a descendant) and a line with a byte that is not UTF-8.
Truncated(entry) == [entry EXCEPT !.kind = "truncated"]

NotUtf8(entry) == [entry EXCEPT !.kind = "not_utf8"]

SkipLines ==
    { Entry(<<"a">>, <<"x">>, "noun"),
      EntryRecord(Word3, <<"x">>, "noun", <<>>, <<>>, FALSE, NoneStr, 1,
                  <<DescText(<<"x">>, <<"a">>)>>),
      Truncated(EntryRecord(Word5, <<"x">>, "noun", <<>>, <<>>, FALSE, NoneStr,
                            2, <<DescText(<<"x">>, <<"a">>)>>)),
      NotUtf8(Entry(Word9, <<"x">>, "noun")) }

SkipCorpora == SeqsUpTo(SkipLines, MaxLines)

\* Lines of the corpora the hierarchy is built over: "a" and "b" (language
\* "x") cite each other, "c" and "b" of language "y" cite "a" (in another
\* case and with blanks, or through the transliteration), and one entry
\* cites nothing.
TreeLines ==
    { EntryT(<<"a">>, <<"x">>, "noun", <<Template(<<"b">>, NoneStr)>>),
      EntryT(<<"b">>, <<"x">>, "noun", <<Template(<<"a">>, NoneStr)>>),
      EntryT(<<"c">>, <<"y">>, "noun", <<Template(<<"A", " ">>, NoneStr)>>),
      EntryT(<<"b">>, <<"y">>, "noun",
             <<Template(NoneStr, NoneStr), Template(<<"c", "c">>, <<"a">>)>>),
      Entry(<<"a">>, <<"y">>, "noun") }

TreeCorpora == SeqsUpTo(TreeLines, MaxLines)

\* Requests in flight at the same time, the corpora they are served from
\* and what they ask for.
MaxRequests == 2

Requests == 1..MaxRequests

MaxConcLines == 2

ConcLines ==
    { EntryT(<<"a">>, <<"x">>, "noun", <<Template(<<"b">>, NoneStr)>>),
      EntryT(<<"b">>, <<"x">>, "noun", <<Template(<<"a">>, NoneStr)>>),
      EntryT(<<"c">>, <<"y">>, "noun", <<Template(<<"A", " ">>, NoneStr)>>) }

ConcCorpora == SeqsUpTo(ConcLines, MaxConcLines)

ConcWords == {<<"a">>, <<"B">>}
ConcLangs == {NoneStr, <<"x">>}

ConcSegLists == {<<"t">>, <<"t", "a">>}

\* Lines of the corpora where one entry cites two entries of the same tree:
\* "p" and "q" come from "a", "e" from both "p" and "q", and in some
\* corpora "q" comes from "p" instead.
MaxShareLines == 3

ShareLines ==
    { EntryT(<<"p">>, <<"x">>, "noun", <<Template(<<"a">>, NoneStr)>>),
      EntryT(<<"q">>, <<"x">>, "noun", <<Template(<<"a">>, NoneStr)>>),
      EntryT(<<"q">>, <<"x">>, "noun", <<Template(<<"p">>, NoneStr)>>),
      EntryT(<<"e">>, <<"x">>, "noun",
             <<Template(<<"p">>, NoneStr), Template(<<"q">>, NoneStr)>>) }

ShareCorpora == SeqsUpTo(ShareLines, MaxShareLines)

\* Lines of the corpora with a chain longer than the depth cap: four entries
\* of one language, "b" from "a", "c" from "b", "d" from "c" and "a" from
\* "d".
MaxDeepLines == 4

DeepLines ==
    { EntryT(<<"b">>, <<"x">>, "noun", <<Template(<<"a">>, NoneStr)>>),
      EntryT(<<"c">>, <<"x">>, "noun", <<Template(<<"b">>, NoneStr)>>),
      EntryT(<<"d">>, <<"x">>, "noun", <<Template(<<"c">>, NoneStr)>>),
      EntryT(<<"a">>, <<"x">>, "noun", <<Template(<<"d">>, NoneStr)>>) }

DeepCorpora == SeqsUpTo(DeepLines, MaxDeepLines)

RootWords == {<<"a">>, <<"B">>, <<"c">>}
RootLangs == {NoneStr, <<"x">>, <<"Y">>}

NoTree ==
    [request |-> [word |-> NoneStr, lang_code |-> NoneStr],
     result  |-> [name |-> NoneStr, children |-> <<>>]]

\* Lines of the corpora the routes are served from (language "x" but one):
\* "a" derives from "b", from "d" (the template names no language) and
\* from "c", has an expansion and no IPA; "b" has a head template without a
\* head, an etymology text and a phonemic IPA only; "c" has a template that
\* is not named "head", no etymology template and a phonetic IPA; "d" has no
\* head template at all; "c" of language "y" has the head "B"; "e" derives
\* from "a"; "b" of language "y" has no etymology text.
ServeLines ==
    { WithExpansion(EntryRecord(<<"a">>, <<"x">>, "noun",
                                <<TemplateL(<<"x">>, <<"b">>, NoneStr),
                                  TemplateL(NoneStr, <<"d">>, NoneStr),
                                  TemplateL(<<"x">>, <<"c">>, NoneStr)>>, <<>>,
                                FALSE, NoneStr, 0, <<>>),
                    <<"f", "r", "o", "m", " ", "b">>),
      EntryRecord(<<"b">>, <<"x">>, "noun", <<>>,
                  <<HeadTemplate("head", NoneStr)>>, TRUE,
                  <<"/", "b", "/">>, 0, <<>>),
      EntryRecord(<<"c">>, <<"x">>, "noun", <<>>,
                  <<HeadTemplate("en-noun", NoneStr)>>, TRUE,
                  <<"c">>, 0, <<>>),
      EntryRecord(<<"d">>, <<"x">>, "noun",
                  <<TemplateL(NoneStr, NoneStr, <<"B">>)>>, <<>>, FALSE,
                  NoneStr, 0, <<>>),
      EntryRecord(<<"c">>, <<"y">>, "noun", <<>>,
                  <<HeadTemplate("head", <<"B">>)>>, FALSE,
                  NoneStr, 0, <<>>),
      EntryRecord(<<"e">>, <<"x">>, "noun",
                  <<TemplateL(<<"x">>, <<"a">>, NoneStr)>>, <<>>, FALSE,
                  NoneStr, 0, <<>>),
      Entry(<<"b">>, <<"y">>, "noun") }

ServeCorpora == SeqsUpTo(ServeLines, MaxLines)

ServeWords == {<<"a">>, <<"B">>, <<"c">>, <<"d">>}
ServeLangs == {<<"x">>, <<"Y">>}

\* Line d of the file overwritten in place after the index was built: the
\* same bytes long, no longer JSON.  d = 0: the file is as it was indexed.
Damaged(c, d) ==
    [k \in 1..Len(c) |-> IF k = d THEN [c[k] EXCEPT !.kind = "corrupt"] ELSE c[k]]

(***************************************************************************)
(* The aligner as a state machine.                                         *)
(***************************************************************************)
AlignIdle ==
    /\ seg1 = <<>>
    /\ seg2 = <<>>
    /\ aligned = <<>>
    /\ apc = "input"
    /\ dresp = NoDrift

IndexIdle ==
    /\ corpus = <<>>
    /\ bpc = "idle"
    /\ run = 0
    /\ file_pos = 0
    /\ locals = NoLocals
    /\ files = NoFiles
    /\ prev_files = NoFiles
    /\ index = <<>>
    /\ lresp = NoResponse

TreeIdle ==
    /\ tpc = "idle"
    /\ stack = <<>>
    /\ visited = {}
    /\ tree = NoTree

ServeIdle == resp = NoRequest

IdleCall == [tpc |-> "idle", stack |-> <<>>, visited |-> {}, tree |-> NoTree]

ConcIdle == calls = [r \in Requests |-> IdleCall]

AlignInit ==
    /\ seg1 \in SegLists
    /\ seg2 \in SegLists
    /\ aligned = <<>>
    /\ apc = "input"
    /\ dresp = NoDrift
    /\ IndexIdle
    /\ TreeIdle
    /\ ServeIdle
    /\ ConcIdle

\* One call of align_segments(seg1, seg2, ft).
AlignSegments ==
    /\ apc = "input"
    /\ aligned' = align_segments(seg1, seg2)
    /\ apc' = "done"
    /\ UNCHANGED <<seg1, seg2, dresp>>
    /\ UNCHANGED <<indexVars, treeVars, serveVars, concVars>>

\* GET /phonetic-drift-detailed: the segments are aligned and one diff
\* record per pair is answered.
PhoneticDriftDetailed ==
    /\ apc = "input"
    /\ aligned' = align_segments(seg1, seg2)
    /\ dresp' = phonetic_drift_detailed(seg1, seg2)
    /\ apc' = "done"
    /\ UNCHANGED <<seg1, seg2>>
    /\ UNCHANGED <<indexVars, treeVars, serveVars, concVars>>

AlignNext == AlignSegments \/ PhoneticDriftDetailed

SpecAlign == AlignInit /\ [][AlignNext]_vars

\* The same calls on longer lists over fewer segments.
AlignLongInit ==
    /\ seg1 \in LongSegLists
    /\ seg2 \in LongSegLists
    /\ aligned = <<>>
    /\ apc = "input"
    /\ dresp = NoDrift
    /\ IndexIdle
    /\ TreeIdle
    /\ ServeIdle
    /\ ConcIdle

SpecAlignLong == AlignLongInit /\ [][AlignNext]_vars

(***************************************************************************)
(* The index build, the load at server start and /word-data.               *)
(***************************************************************************)
IndexInit ==
    /\ corpus \in Corpora
    /\ bpc = "idle"
    /\ run = 0
    /\ file_pos = 0
    /\ locals = NoLocals
    /\ files = NoFiles
    /\ prev_files = NoFiles
    /\ index = <<>>
    /\ lresp = NoResponse
    /\ AlignIdle
    /\ TreeIdle
    /\ ServeIdle
    /\ ConcIdle

\* build_index_from_jsonl is called: its locals are set up and the corpus
\* file is opened.
StartBuild ==
    /\ bpc \in {"idle", "done", "raised"}
    /\ run < MaxRuns
    /\ run' = run + 1
    /\ bpc' = "scan"
    /\ file_pos' = 0
    /\ locals' = FreshLocals(locals)
    /\ prev_files' = files
    /\ UNCHANGED <<corpus, files, index, lresp>>
    /\ UNCHANGED <<alignVars, treeVars, serveVars, concVars>>

\* One iteration of the while loop: tell(), readline(), the try block.
\* The file is open in text mode with encoding utf-8: readline(), which is
\* outside the try block, raises UnicodeDecodeError on a line whose bytes
\* are not UTF-8, and the function is left before anything is written.
ScanLine ==
    /\ bpc = "scan"
    /\ file_pos \in LineStarts(corpus)
    /\ LET byte_offset == file_pos
           line        == LineAt(corpus, file_pos)
       IN  IF readline_raises(line)
           THEN /\ bpc' = "raised"
                /\ UNCHANGED <<locals, file_pos>>
           ELSE /\ locals' = IndexLine(locals, line, byte_offset)
                /\ file_pos' = file_pos + LineLen(line)
                /\ bpc' = bpc
    /\ UNCHANGED <<corpus, run, files, prev_files, index, lresp>>
    /\ UNCHANGED <<alignVars, treeVars, serveVars, concVars>>

\* readline() returns "" at the end of the file: the loop breaks and the
\* artifacts are written.
FinishBuild ==
    /\ bpc = "scan"
    /\ file_pos \notin LineStarts(corpus)
    /\ files' = SavedFiles(locals, files)
    /\ bpc' = IF descendant_count_heap(locals).raised THEN "raised" ELSE "done"
    /\ UNCHANGED <<corpus, run, file_pos, locals, prev_files, index, lresp>>
    /\ UNCHANGED <<alignVars, treeVars, serveVars, concVars>>

\* constants.load_index: index.update(json.load(f)).
LoadIndex ==
    /\ bpc = "done"
    /\ files.saved
    /\ index' = Update(index, files.index)
    /\ index' # index
    /\ UNCHANGED <<corpus, bpc, run, file_pos, locals, files, prev_files, lresp>>
    /\ UNCHANGED <<alignVars, treeVars, serveVars, concVars>>

\* GET /word-data?word=..&lang_code=.. on the loaded server.
WordData ==
    /\ bpc = "done"
    /\ index = files.index
    /\ \E word \in QueryWords : \E lang_code \in QueryLangs :
          lresp' = get_word_data(index, corpus, word, lang_code)
    /\ UNCHANGED <<corpus, bpc, run, file_pos, locals, files, prev_files, index>>
    /\ UNCHANGED <<alignVars, treeVars, serveVars, concVars>>

IndexNext == StartBuild \/ ScanLine \/ FinishBuild \/ LoadIndex \/ WordData

SpecIndex == IndexInit /\ [][IndexNext]_vars

\* The same build over the corpora the leaderboards are computed from.
AggInit ==
    /\ corpus \in AggCorpora
    /\ bpc = "idle"
    /\ run = 0
    /\ file_pos = 0
    /\ locals = NoLocals
    /\ files = NoFiles
    /\ prev_files = NoFiles
    /\ index = <<>>
    /\ lresp = NoResponse
    /\ AlignIdle
    /\ TreeIdle
    /\ ServeIdle
    /\ ConcIdle

SpecAgg == AggInit /\ [][IndexNext]_vars

\* The same build over the corpora of the longest-words heap.
BoardInit ==
    /\ corpus \in BoardCorpora
    /\ bpc = "idle"
    /\ run = 0
    /\ file_pos = 0
    /\ locals = NoLocals
    /\ files = NoFiles
    /\ prev_files = NoFiles
    /\ index = <<>>
    /\ lresp = NoResponse
    /\ AlignIdle
    /\ TreeIdle
    /\ ServeIdle
    /\ ConcIdle

SpecBoard == BoardInit /\ [][IndexNext]_vars

\* The same build over the corpora with lines that do not decode.
SkipInit ==
    /\ corpus \in SkipCorpora
    /\ bpc = "idle"
    /\ run = 0
    /\ file_pos = 0
    /\ locals = NoLocals
    /\ files = NoFiles
    /\ prev_files = NoFiles
    /\ index = <<>>
    /\ lresp = NoResponse
    /\ AlignIdle
    /\ TreeIdle
    /\ ServeIdle
    /\ ConcIdle

SpecSkip == SkipInit /\ [][IndexNext]_vars

(***************************************************************************)
(* The descendant hierarchy on a server whose index was built from the     *)
(* corpus and loaded.                                                      *)
(***************************************************************************)
TreeInit ==
    /\ corpus \in TreeCorpora
    /\ bpc = "done"
    /\ run = 1
    /\ file_pos = LineOffset(corpus, Len(corpus) + 1)
    /\ locals = ScanFrom(NoLocals, corpus, 1)
    /\ files = BuiltFiles(corpus)
    /\ prev_files = NoFiles
    /\ index = BuiltFiles(corpus).index
    /\ lresp = NoResponse
    /\ AlignIdle
    /\ TreeIdle
    /\ ServeIdle
    /\ ConcIdle

\* A top-level call build_descendant_hierarchy(word, f, lang_code=lang_code),
\* as descendant_tree_from_root makes it (get_descendant_tree: without a
\* lang_code): visited is a new set.
CallBuildDescendantHierarchy ==
    /\ tpc \in {"idle", "done"}
    /\ \E word \in RootWords : \E lang_code \in RootLangs :
          /\ stack' = <<Frame(word, lang_code, 0)>>
          /\ tree' = [NoTree EXCEPT !.request =
                         [word |-> word, lang_code |-> lang_code]]
    /\ visited' = NewVisited(visited)
    /\ tpc' = "run"
    /\ UNCHANGED <<alignVars, indexVars, serveVars, concVars>>

\* One iteration of the for loop of the running call.
ScanKey ==
    /\ tpc = "run"
    /\ ~Returning(Top, index)
    /\ LET step == ScanKeyStep(stack, visited, index, corpus)
       IN  /\ stack' = step.stack
           /\ visited' = step.visited
    /\ UNCHANGED <<tpc, tree>>
    /\ UNCHANGED <<alignVars, indexVars, serveVars, concVars>>

\* The running call returns.
ReturnHierarchy ==
    /\ tpc = "run"
    /\ Returning(Top, index)
    /\ LET step == ReturnStep(stack, tree)
       IN  /\ stack' = step.stack
           /\ tree' = step.tree
           /\ tpc' = step.tpc
    /\ UNCHANGED visited
    /\ UNCHANGED <<alignVars, indexVars, serveVars, concVars>>

TreeNext == CallBuildDescendantHierarchy \/ ScanKey \/ ReturnHierarchy

SpecTree == TreeInit /\ [][TreeNext]_vars

\* The same calls on the corpora with a chain longer than the depth cap.
DeepInit ==
    /\ corpus \in DeepCorpora
    /\ bpc = "done"
    /\ run = 1
    /\ file_pos = LineOffset(corpus, Len(corpus) + 1)
    /\ locals = ScanFrom(NoLocals, corpus, 1)
    /\ files = BuiltFiles(corpus)
    /\ prev_files = NoFiles
    /\ index = BuiltFiles(corpus).index
    /\ lresp = NoResponse
    /\ AlignIdle
    /\ TreeIdle
    /\ ServeIdle
    /\ ConcIdle

SpecDeep == DeepInit /\ [][TreeNext]_vars

\* The same calls over the corpora where an entry cites two entries of the
\* tree.
ShareInit ==
    /\ corpus \in ShareCorpora
    /\ bpc = "done"
    /\ run = 1
    /\ file_pos = LineOffset(corpus, Len(corpus) + 1)
    /\ locals = ScanFrom(NoLocals, corpus, 1)
    /\ files = BuiltFiles(corpus)
    /\ prev_files = NoFiles
    /\ index = BuiltFiles(corpus).index
    /\ lresp = NoResponse
    /\ AlignIdle
    /\ TreeIdle
    /\ ServeIdle
    /\ ConcIdle

SpecShare == ShareInit /\ [][TreeNext]_vars

\* The scheduler runs a request to its end.
FairSpecTree ==
    SpecTree /\ WF_vars(ScanKey) /\ WF_vars(ReturnHierarchy)

(***************************************************************************)
(* The routes on a server whose index was built from the corpus and        *)
(* loaded, the corpus file having possibly been damaged since.  A route    *)
(* is one step; the routes only read the index and the corpus, so the      *)
(* first request of a behaviour stands for a request at any time.          *)
(***************************************************************************)
ServeInit ==
    /\ \E c0 \in ServeCorpora : \E d \in 0..Len(c0) :
          /\ corpus = Damaged(c0, d)
          /\ locals = ScanFrom(NoLocals, c0, 1)
          /\ files = BuiltFiles(c0)
          /\ index = BuiltFiles(c0).index
          /\ file_pos = LineOffset(c0, Len(c0) + 1)
    /\ bpc = "done"
    /\ run = 1
    /\ prev_files = NoFiles
    /\ lresp = NoResponse
    /\ AlignIdle
    /\ TreeIdle
    /\ ServeIdle
    /\ ConcIdle

\* GET /word-data
ServeWordData ==
    /\ resp = NoRequest
    /\ \E word \in ServeWords : \E lang_code \in ServeLangs :
          LET r == get_word_data(index, corpus, word, lang_code)
          IN  resp' = [Response("/word-data", word, lang_code)
                          EXCEPT !.status = r.status, !.data = r.data]
    /\ UNCHANGED <<alignVars, indexVars, treeVars, concVars>>

\* GET /descendant-tree
GetDescendantTree ==
    /\ resp = NoRequest
    /\ \E word \in ServeWords : \E lang_code \in ServeLangs :
          resp' = get_descendant_tree(index, corpus, word, lang_code)
    /\ UNCHANGED <<alignVars, indexVars, treeVars, concVars>>

\* GET /descendant-tree-from-root
DescendantTreeFromRoot ==
    /\ resp = NoRequest
    /\ \E word \in ServeWords : \E lang_code \in ServeLangs :
          resp' = descendant_tree_from_root(index, corpus, word, lang_code)
    /\ UNCHANGED <<alignVars, indexVars, treeVars, concVars>>

\* GET /descendant-paths-from-root, with or without a lang_code
DescendantPathsFromRoot ==
    /\ resp = NoRequest
    /\ \E word \in ServeWords : \E lang_code \in ServeLangs \cup {NoneStr} :
          resp' = descendant_paths_from_root(index, corpus, word, lang_code)
    /\ UNCHANGED <<alignVars, indexVars, treeVars, concVars>>

\* GET /ancestry-chain, the estimator and the distance each being in one of
\* its conditions
AncestryChain ==
    /\ resp = NoRequest
    /\ \E word \in ServeWords : \E lang_code \in ServeLangs :
       \E estimator \in Estimators : \E distance \in Distances :
          resp' = ancestry_chain(index, corpus, word, lang_code, estimator,
                                 distance)
    /\ UNCHANGED <<alignVars, indexVars, treeVars, concVars>>

ServeNext ==
    \/ ServeWordData
    \/ GetDescendantTree
    \/ DescendantTreeFromRoot
    \/ DescendantPathsFromRoot
    \/ AncestryChain

SpecServe == ServeInit /\ [][ServeNext]_vars

(***************************************************************************)
(* Requests in flight at the same time on the loaded server: traversals    *)
(* that advance one iteration at a time, each on its own activation        *)
(* records, and a lookup and an alignment between their steps.             *)
(***************************************************************************)
ConcInit ==
    /\ corpus \in ConcCorpora
    /\ bpc = "done"
    /\ run = 1
    /\ file_pos = LineOffset(corpus, Len(corpus) + 1)
    /\ locals = ScanFrom(NoLocals, corpus, 1)
    /\ files = BuiltFiles(corpus)
    /\ prev_files = NoFiles
    /\ index = BuiltFiles(corpus).index
    /\ lresp = NoResponse
    /\ seg1 \in ConcSegLists
    /\ seg2 = <<"a">>
    /\ aligned = <<>>
    /\ apc = "input"
    /\ dresp = NoDrift
    /\ TreeIdle
    /\ ServeIdle
    /\ ConcIdle

\* The visited sets of the calls made so far.
Leftover == UNION {calls[r].visited : r \in Requests}

\* Request r makes its top-level call build_descendant_hierarchy(word, f,
\* lang_code=lang_code).
ConcCall(r) ==
    /\ calls[r].tpc = "idle"
    /\ \E word \in ConcWords : \E lang_code \in ConcLangs :
          calls' = [calls EXCEPT ![r] =
                       [tpc     |-> "run",
                        stack   |-> <<Frame(word, lang_code, 0)>>,
                        visited |-> NewVisited(Leftover),
                        tree    |-> [NoTree EXCEPT !.request =
                                        [word |-> word, lang_code |-> lang_code]]]]
    /\ UNCHANGED <<alignVars, indexVars, treeVars, serveVars>>

\* One iteration of the for loop of the running call of request r.
ConcScanKey(r) ==
    /\ calls[r].tpc = "run"
    /\ ~Returning(calls[r].stack[Len(calls[r].stack)], index)
    /\ LET step == ScanKeyStep(calls[r].stack, calls[r].visited, index, corpus)
       IN  calls' = [calls EXCEPT ![r].stack = step.stack,
                                  ![r].visited = step.visited]
    /\ UNCHANGED <<alignVars, indexVars, treeVars, serveVars>>

\* The running call of request r returns.
ConcReturnHierarchy(r) ==
    /\ calls[r].tpc = "run"
    /\ Returning(calls[r].stack[Len(calls[r].stack)], index)
    /\ LET step == ReturnStep(calls[r].stack, calls[r].tree)
       IN  calls' = [calls EXCEPT ![r].stack = step.stack,
                                  ![r].tree = step.tree,
                                  ![r].tpc = step.tpc]
    /\ UNCHANGED <<alignVars, indexVars, treeVars, serveVars>>

ConcNext ==
    \/ \E r \in Requests : ConcCall(r)
    \/ \E r \in Requests : ConcScanKey(r)
    \/ \E r \in Requests : ConcReturnHierarchy(r)
    \/ ServeWordData
    \/ AlignSegments

SpecConc == ConcInit /\ [][ConcNext]_vars

(***************************************************************************)
(* The index claims.  The key of an entry is written out from the data     *)
(* model (lowercase(word) + "_" + lowercase(lang_code)), for the lines     *)
(* that are entries with a word and a language code.                       *)
(***************************************************************************)
IsKeyedEntry(line) ==
    line.kind = "entry" /\ line.word # <<>> /\ line.lang_code # <<>>

KeyOf(line) ==
    [k \in 1..Len(line.word) |-> LowerChar(line.word[k])]
    \o <<"_">>
    \o [k \in 1..Len(line.lang_code) |-> LowerChar(line.lang_code[k])]

SameUpToCase(s, t) ==
    /\ Len(s) = Len(t)
    /\ \A k \in 1..Len(s) : LowerChar(s[k]) = LowerChar(t[k])

\* The request was for the word and language code of an entry of the corpus,
\* served from the index built from that corpus.
AskedForAnEntry ==
    /\ lresp.status # 0
    /\ \E i \in 1..Len(corpus) :
          /\ IsKeyedEntry(corpus[i])
          /\ corpus[i].word = lresp.word
          /\ corpus[i].lang_code = lresp.lang_code

\* C1: for every entry written then indexed, lookup(word, lang_code)
\* returns a record whose word and lang_code equal the queried ones up to
\* case, also for words and codes containing "_" and for shared keys.
C1_LookupReturnsTheEntryAsked ==
    AskedForAnEntry =>
        /\ lresp.status = 200
        /\ SameUpToCase(lresp.data.word, lresp.word)
        /\ SameUpToCase(lresp.data.lang_code, lresp.lang_code)

\* C2: once the build has finished, every key of the word index maps to the
\* byte offset at which a corpus line starts, that line is an entry with this
\* key, and no earlier entry of the corpus has the key.
C2_OffsetsAreFirstOccurrences ==
    bpc = "done" =>
        \A k \in 1..Len(files.index) :
            \E i \in 1..Len(corpus) :
                /\ LineOffset(corpus, i) = files.index[k][2]
                /\ IsKeyedEntry(corpus[i])
                /\ KeyOf(corpus[i]) = files.index[k][1]
                /\ \A j \in 1..(i - 1) :
                      ~(IsKeyedEntry(corpus[j]) /\ KeyOf(corpus[j]) = files.index[k][1])

C2_Witness ==
    /\ bpc = "done"
    /\ Len(files.index) >= 2
    /\ \E i, j \in 1..Len(corpus) :
          /\ i < j
          /\ IsKeyedEntry(corpus[i]) /\ IsKeyedEntry(corpus[j])
          /\ corpus[i] # corpus[j]
          /\ KeyOf(corpus[i]) = KeyOf(corpus[j])
    /\ \E k \in 1..Len(files.index) : files.index[k][2] > 0

\* C3: a second build of the same corpus leaves the same artifacts (key to
\* offset mapping and leaderboards) as the first one left.
C3_RebuildIsIdempotent ==
    (run >= 2 /\ bpc = "done") => files = prev_files

C3_Witness ==
    /\ run = 2 /\ bpc = "done"
    /\ Len(files.index) >= 2
    /\ Len(files.longest_words) = TopN
    /\ locals.record_count = MaxLines

(***************************************************************************)
(* The leaderboard claims.                                                 *)
(***************************************************************************)
NonIncreasing(metrics) ==
    \A k \in 1..(Len(metrics) - 1) : metrics[k] >= metrics[k + 1]

Lengths(board) == [k \in 1..Len(board) |-> board[k].length]

TranslationCounts(board) == [k \in 1..Len(board) |-> board[k].translation_count]

DescendantCounts(board) == [k \in 1..Len(board) |-> board[k].descendant_count]

WordLengths(c) == [k \in 1..Len(c) |-> Len(c[k].word)]

\* C11: each leaderboard the build writes is in non-increasing order of its
\* metric, and for a corpus of three words of lengths 5, 9 and 3 the
\* longest-words leaderboard lists the lengths 9, 5, 3.
C11_LeaderboardsDescending ==
    bpc = "done" =>
        /\ NonIncreasing(Lengths(files.longest_words))
        /\ NonIncreasing(TranslationCounts(files.most_translations))
        /\ NonIncreasing(DescendantCounts(files.most_descendants))
        /\ WordLengths(corpus) = <<5, 9, 3>> =>
               Lengths(files.longest_words) = <<9, 5, 3>>

C11_Witness ==
    /\ bpc = "done"
    /\ WordLengths(corpus) = <<5, 9, 3>>
    /\ Len(files.longest_words) = 3
    /\ Len(files.most_translations) >= 2
    /\ Len(files.most_descendants) >= 2
    /\ files.most_translations[1].translation_count
           > files.most_translations[2].translation_count
    /\ files.most_descendants[1].descendant_count
           > files.most_descendants[2].descendant_count

\* The direct children of a key in the reverse descendant graph.
ChildrenOf(links, key) == IF key \in Keys(links) THEN Get(links, key) ELSE <<>>

RangeOf(seq) == {seq[k] : k \in 1..Len(seq)}

\* The keys reached from the set from in at most n edges (one at least).
RECURSIVE ReachedIn(_, _, _)
ReachedIn(links, from, n) ==
    LET next == UNION {RangeOf(ChildrenOf(links, k)) : k \in from}
    IN  IF n <= 1 THEN next ELSE next \cup ReachedIn(links, next, n - 1)

Acyclic(links) ==
    \A k \in Keys(links) : k \notin ReachedIn(links, {k}, Len(links))

\* count(k) = sum over the direct children c of k of (count(c) + 1).
RECURSIVE DescendantCount(_, _)
DescendantCount(links, key) ==
    SumSeq([i \in 1..Len(ChildrenOf(links, key)) |->
               DescendantCount(links, ChildrenOf(links, key)[i]) + 1])

\* C15: counting the descendants ends for every reverse descendant graph,
\* graphs with a cycle of length two or more included: the build is never
\* left by unbounded recursion.
C15_CountingTerminates ==
    bpc # "raised"

\* What the decorator has stored once key2 has been counted.
CacheAfter(links, key2) == count_descendants_cached(links, key2, <<>>, 1).cache

\* C20: on an acyclic reverse descendant graph count_descendants_cached(k)
\* is the sum over the direct children c of k of (count(c) + 1), 0 for a
\* key without children, whatever the cache already holds.
C20_CountIsSumOverChildren ==
    (bpc \in {"done", "raised"} /\ Acyclic(locals.descendant_links)) =>
        LET links == locals.descendant_links
            nodes == locals.all_entry_keys \cup Keys(links)
        IN  /\ bpc = "done"
            /\ \A k \in nodes :
                   /\ ~count_descendants_cached(links, k, <<>>, 1).raised
                   /\ count_descendants_cached(links, k, <<>>, 1).value
                          = DescendantCount(links, k)
                   /\ \A k2 \in nodes :
                          count_descendants_cached(links, k, CacheAfter(links, k2), 1).value
                              = DescendantCount(links, k)
            /\ \A e \in RangeOf(files.most_descendants) :
                   e.descendant_count
                       = DescendantCount(links, index_key(e.word, e.lang_code))

C20_Witness ==
    /\ bpc = "done"
    /\ Acyclic(locals.descendant_links)
    /\ \E k \in Keys(locals.descendant_links) :
           /\ Len(ChildrenOf(locals.descendant_links, k)) = 2
           /\ \E c \in Keys(locals.descendant_links) :
                  /\ ChildrenOf(locals.descendant_links, k)[1] # c
                  /\ ChildrenOf(locals.descendant_links, ChildrenOf(locals.descendant_links, k)[1])
                         = ChildrenOf(locals.descendant_links, c)
                  /\ c \in RangeOf(ChildrenOf(locals.descendant_links, k))
           /\ count_descendants_cached(locals.descendant_links, k, <<>>, 1).value = 4

(***************************************************************************)
(* The alignment claims.  PairCost and TotalCost are written from the cost  *)
(* model of the design (F features; 0 for equal segments, F for a segment  *)
(* without a vector, else the number of differing features; F + 1 for a    *)
(* gap), not from phonological_cost; a claim about "the total cost of      *)
(* align" is asked of the alignment returned, under that cost model, and   *)
(* of the cost dp[m][n] the function itself arrived at.                    *)
(***************************************************************************)
F == NumFeatures

PairCost(p) ==
    IF p[1] = None \/ p[2] = None
    THEN F + 1
    ELSE IF p[1] = p[2]
         THEN 0
         ELSE IF fts(p[1]) = NoVector \/ fts(p[2]) = NoVector
              THEN F
              ELSE Cardinality({k \in FeatureNames : fts(p[1])[k] # fts(p[2])[k]})

TotalCost(al) == SumSeq([k \in 1..Len(al) |-> PairCost(al[k])])

\* Every alignment of a and b: pairs covering both, in order, no pair empty.
RECURSIVE Alignments(_, _)
Alignments(a, b) ==
    IF a = <<>> /\ b = <<>>
    THEN {<<>>}
    ELSE (IF a # <<>> /\ b # <<>>
          THEN {<<<<Head(a), Head(b)>>>> \o r : r \in Alignments(Tail(a), Tail(b))}
          ELSE {})
         \cup
         (IF a # <<>>
          THEN {<<<<Head(a), None>>>> \o r : r \in Alignments(Tail(a), b)}
          ELSE {})
         \cup
         (IF b # <<>>
          THEN {<<<<None, Head(b)>>>> \o r : r \in Alignments(a, Tail(b))}
          ELSE {})

\* The non-null entries of one side of a list of pairs, in order.
RECURSIVE Side(_, _)
Side(al, k) ==
    IF al = <<>>
    THEN <<>>
    ELSE (IF Head(al)[k] = None THEN <<>> ELSE <<Head(al)[k]>>) \o Side(Tail(al), k)

IsGap(p) == p[1] = None \/ p[2] = None

GapCount(al) == Cardinality({k \in 1..Len(al) : IsGap(al[k])})

\* a with x inserted after its first pos segments.
InsertAt(a, pos, x) == SubSeq(a, 1, pos) \o <<x>> \o SubSeq(a, pos + 1, Len(a))

\* C4: the returned alignment has minimum total cost among all alignments
\* of the two inputs.
C4_MinimumCost ==
    apc = "done" =>
        \A al \in Alignments(seg1, seg2) : TotalCost(aligned) <= TotalCost(al)

C4_Witness ==
    /\ apc = "done"
    /\ Len(seg1) = MaxSegs /\ Len(seg2) >= 1
    /\ \E al \in Alignments(seg1, seg2) : TotalCost(al) > TotalCost(aligned)
    /\ \E al \in Alignments(seg1, seg2) :
           al # aligned /\ TotalCost(al) = TotalCost(aligned)

\* C5: the returned pairs cover both inputs exactly once each and in order:
\* the non-null left sides spell seg1, the non-null right sides spell seg2,
\* and no pair has both sides null.
C5_CoversBothInOrder ==
    apc = "done" =>
        /\ Side(aligned, 1) = seg1
        /\ Side(aligned, 2) = seg2
        /\ \A k \in 1..Len(aligned) :
               ~(aligned[k][1] = None /\ aligned[k][2] = None)

C5_Witness ==
    /\ apc = "done"
    /\ Len(seg1) = MaxSegs /\ Len(seg2) >= 1 /\ seg1[1] # seg1[MaxSegs]
    /\ \E k \in 1..Len(aligned) : aligned[k][2] = None
    /\ \E k \in 1..Len(aligned) : ~IsGap(aligned[k]) /\ aligned[k][1] # aligned[k][2]

\* C6: a sequence aligned with itself costs 0 and is aligned position by
\* position, without a gap, every pair at cost 0; unknown segments and the
\* empty sequence included.
C6_SelfAlignment ==
    (apc = "done" /\ seg1 = seg2) =>
        /\ TotalCost(aligned) = 0
        /\ total_cost(seg1, seg2) = 0
        /\ aligned = [k \in 1..Len(seg1) |-> <<seg1[k], seg1[k]>>]
        /\ \A k \in 1..Len(aligned) :
               /\ PairCost(aligned[k]) = 0
               /\ phonological_cost(aligned[k][1], aligned[k][2]) = 0

C6_Witness ==
    /\ apc = "done" /\ seg1 = seg2
    /\ Len(seg1) = MaxSegs
    /\ \E k \in 1..Len(seg1) : fts(seg1[k]) = NoVector
    /\ Len(aligned) = MaxSegs

\* C7: the total cost of align(a, b) equals the total cost of align(b, a).
C7_CostSymmetric ==
    apc = "done" =>
        /\ TotalCost(aligned) = TotalCost(align_segments(seg2, seg1))
        /\ total_cost(seg1, seg2) = total_cost(seg2, seg1)

C7_Witness ==
    /\ apc = "done"
    /\ Len(seg1) > Len(seg2) /\ Len(seg2) > 0
    /\ TotalCost(aligned) > F + 1
    /\ GapCount(aligned) = 1

\* What inserting x after the first pos segments of seg1 adds to the total
\* cost: of the alignment returned, and of dp[m][n].
CostAdded(pos, x) ==
    TotalCost(align_segments(InsertAt(seg1, pos, x), seg2)) - TotalCost(aligned)

GridCostAdded(pos, x) ==
    total_cost(InsertAt(seg1, pos, x), seg2) - total_cost(seg1, seg2)

\* C8 as stated: inserting one segment anywhere into the first sequence
\* raises the total cost by at least 1 and at most F + 1.
C8_InsertRaisesCost ==
    apc = "done" =>
        \A x \in Segments : \A pos \in 0..Len(seg1) :
            /\ 1 <= CostAdded(pos, x) /\ CostAdded(pos, x) <= F + 1
            /\ 1 <= GridCostAdded(pos, x) /\ GridCostAdded(pos, x) <= F + 1

\* C8, amended: inserting one segment anywhere into the first sequence
\* changes the total cost by at most F + 1, up or down.
C8_InsertChangesCostBounded ==
    apc = "done" =>
        \A x \in Segments : \A pos \in 0..Len(seg1) :
            /\ 0 - (F + 1) <= CostAdded(pos, x) /\ CostAdded(pos, x) <= F + 1
            /\ 0 - (F + 1) <= GridCostAdded(pos, x) /\ GridCostAdded(pos, x) <= F + 1

C8_Witness ==
    /\ apc = "done"
    /\ Len(seg1) >= 1
    /\ \E x \in Segments : \E pos \in 0..Len(seg1) : CostAdded(pos, x) = 0 - (F + 1)
    /\ \E x \in Segments : \E pos \in 0..Len(seg1) : CostAdded(pos, x) > 0

IsAppendOf(a, b) == Len(a) = Len(b) + 1 /\ SubSeq(a, 1, Len(b)) = b

\* C9 as stated: align(s + [x], s) costs F + 1 and is |s| identity pairs
\* plus exactly one deletion pair.
C9_AppendIsIdentityPlusDeletion ==
    (apc = "done" /\ IsAppendOf(seg1, seg2)) =>
        /\ TotalCost(aligned) = F + 1
        /\ total_cost(seg1, seg2) = F + 1
        /\ Len(aligned) = Len(seg2) + 1
        /\ Cardinality({k \in 1..Len(aligned) : aligned[k][2] = None}) = 1
        /\ \A k \in 1..Len(aligned) :
               aligned[k][2] # None => aligned[k][1] = aligned[k][2]

\* C9, amended: align(s + [x], s) costs F + 1 and is |s| substitution pairs
\* of cost 0 plus exactly one deletion pair; align([t, a], [t]) is
\* [(t, t), (a, null)] and align([t, a], [t, a]) is [(t, t), (a, a)].
C9_AppendIsZeroCostPlusDeletion ==
    /\ (apc = "done" /\ IsAppendOf(seg1, seg2)) =>
           /\ TotalCost(aligned) = F + 1
           /\ total_cost(seg1, seg2) = F + 1
           /\ Len(aligned) = Len(seg2) + 1
           /\ Cardinality({k \in 1..Len(aligned) : aligned[k][2] = None}) = 1
           /\ \A k \in 1..Len(aligned) :
                  aligned[k][2] # None =>
                      aligned[k][1] # None /\ PairCost(aligned[k]) = 0
    /\ (apc = "done" /\ seg1 = <<"t", "a">> /\ seg2 = <<"t">>) =>
           aligned = << <<"t", "t">>, <<"a", None>> >>
    /\ (apc = "done" /\ seg1 = <<"t", "a">> /\ seg2 = <<"t", "a">>) =>
           /\ aligned = << <<"t", "t">>, <<"a", "a">> >>
           /\ total_cost(seg1, seg2) = 0

C9_Witness ==
    /\ apc = "done" /\ IsAppendOf(seg1, seg2)
    /\ Len(seg2) >= 1
    /\ \E k \in 1..Len(aligned) :
           ~IsGap(aligned[k]) /\ aligned[k][1] # aligned[k][2]

\* The least total cost of aligning the first i segments of a with the first
\* j segments of b, by the recurrence of the edit distance.
RECURSIVE OptCost(_, _, _, _)
OptCost(a, b, i, j) ==
    IF i = 0 /\ j = 0 THEN 0
    ELSE IF i = 0 THEN OptCost(a, b, i, j - 1) + F + 1
    ELSE IF j = 0 THEN OptCost(a, b, i - 1, j) + F + 1
    ELSE LET sub == OptCost(a, b, i - 1, j - 1) + PairCost(<<a[i], b[j]>>)
             del == OptCost(a, b, i - 1, j) + F + 1
             ins == OptCost(a, b, i, j - 1) + F + 1
             m1  == IF sub <= del THEN sub ELSE del
         IN  IF m1 <= ins THEN m1 ELSE ins

ViaSubstitution(a, b, i, j) ==
    /\ i > 0 /\ j > 0
    /\ OptCost(a, b, i - 1, j - 1) + PairCost(<<a[i], b[j]>>) = OptCost(a, b, i, j)

ViaDeletion(a, b, i, j) ==
    i > 0 /\ OptCost(a, b, i - 1, j) + F + 1 = OptCost(a, b, i, j)

ViaInsertion(a, b, i, j) ==
    j > 0 /\ OptCost(a, b, i, j - 1) + F + 1 = OptCost(a, b, i, j)

\* The predecessor the priority substitution, deletion, insertion selects.
PreferredPredecessor(a, b, i, j) ==
    IF ViaSubstitution(a, b, i, j) THEN <<i - 1, j - 1>>
    ELSE IF ViaDeletion(a, b, i, j) THEN <<i - 1, j>>
    ELSE <<i, j - 1>>

\* The alignment of the first i and j segments that the priority fixes.
RECURSIVE PriorityAlignment(_, _, _, _)
PriorityAlignment(a, b, i, j) ==
    IF i = 0 /\ j = 0
    THEN <<>>
    ELSE LET p == PreferredPredecessor(a, b, i, j)
         IN  Append(PriorityAlignment(a, b, p[1], p[2]),
                    <<IF p[1] < i THEN a[i] ELSE None,
                      IF p[2] < j THEN b[j] ELSE None>>)

Cells(a, b) == ((0..Len(a)) \X (0..Len(b))) \ {<<0, 0>>}

\* C17: at equal minimal cost the backpointer of a cell is the substitution
\* predecessor if it attains the minimum, else the deletion predecessor,
\* else the insertion predecessor, and the alignment returned is the one
\* this priority fixes.
C17_TieBreakPriority ==
    apc = "done" =>
        /\ \A c \in Cells(seg1, seg2) :
               /\ Grid(seg1, seg2).dp[c[1]][c[2]] = OptCost(seg1, seg2, c[1], c[2])
               /\ Grid(seg1, seg2).back[c[1]][c[2]]
                      = PreferredPredecessor(seg1, seg2, c[1], c[2])
        /\ aligned = PriorityAlignment(seg1, seg2, Len(seg1), Len(seg2))

C17_Witness ==
    /\ apc = "done"
    /\ \E c \in Cells(seg1, seg2) :
           /\ ~ViaSubstitution(seg1, seg2, c[1], c[2])
           /\ ViaDeletion(seg1, seg2, c[1], c[2])
           /\ ViaInsertion(seg1, seg2, c[1], c[2])
           /\ Grid(seg1, seg2).back[c[1]][c[2]] = <<c[1] - 1, c[2]>>
           /\ c = <<Len(seg1), Len(seg2)>>
           /\ IsGap(aligned[Len(aligned)])

IsDeletion(p) == p[1] # None /\ p[2] = None

IsInsertion(p) == p[1] = None /\ p[2] # None

Abs(x) == IF x >= 0 THEN x ELSE 0 - x

\* C18 as stated: no alignment returned holds a deletion pair and an
\* insertion pair that a substitution could replace, so it has exactly
\* max(m, n) pairs, |m - n| of them gap pairs.
C18_NeverDeletionAndInsertion ==
    apc = "done" =>
        /\ ~(\E k, l \in 1..Len(aligned) :
                IsDeletion(aligned[k]) /\ IsInsertion(aligned[l]))
        /\ Len(aligned) = Max2(Len(seg1), Len(seg2))
        /\ GapCount(aligned) = Abs(Len(seg1) - Len(seg2))

\* C18, amended: no alignment returned holds a deletion pair next to an
\* insertion pair, and when the shorter sequence has at most two segments
\* the alignment has exactly max(m, n) pairs, |m - n| of them gap pairs.
C18_NoAdjacentDeletionInsertion ==
    apc = "done" =>
        /\ \A k \in 1..(Len(aligned) - 1) :
               /\ ~(IsDeletion(aligned[k]) /\ IsInsertion(aligned[k + 1]))
               /\ ~(IsInsertion(aligned[k]) /\ IsDeletion(aligned[k + 1]))
        /\ (Len(seg1) <= 2 \/ Len(seg2) <= 2) =>
               /\ Len(aligned) = Max2(Len(seg1), Len(seg2))
               /\ GapCount(aligned) = Abs(Len(seg1) - Len(seg2))
               /\ ~(\E k, l \in 1..Len(aligned) :
                       IsDeletion(aligned[k]) /\ IsInsertion(aligned[l]))

C18_Witness ==
    /\ apc = "done"
    /\ Len(seg1) = 2 /\ Len(seg2) = 2
    /\ seg1[2] = seg2[1] /\ seg1[1] # seg2[1] /\ seg1[2] # seg2[2]
    /\ TotalCost(aligned) = 2 * F
    /\ GapCount(aligned) = 0

\* The sign of a feature value as the diff report writes it.
SignOf(v) == IF v = 1 THEN "+" ELSE IF v = -1 THEN "-" ELSE "0"

Known(seg) == fts(seg) # NoVector

\* The record the diff report owes the pair p.
ExpectedDiff(p, d) ==
    /\ d.from = p[1] /\ d.to = p[2]
    /\ (p[1] # None /\ p[2] # None /\ Known(p[1]) /\ Known(p[2])) =>
           /\ d.status = "changes"
           /\ DOMAIN d.changes = {k \in FeatureNames : fts(p[1])[k] # fts(p[2])[k]}
           /\ \A k \in DOMAIN d.changes :
                  d.changes[k] = <<SignOf(fts(p[1])[k]), SignOf(fts(p[2])[k])>>
    /\ (p[1] # None /\ p[2] # None /\ ~(Known(p[1]) /\ Known(p[2]))) =>
           d.status = "unknown"
    /\ (p[1] # None /\ p[2] = None) => d.status = "deletion"
    /\ (p[1] = None /\ p[2] # None) => d.status = "insertion"

\* C19: phonetic_drift_detailed answers one diff record per aligned pair, in
\* alignment order: the features whose sign differs as old sign -> new sign
\* when both vectors are known, "unknown" when a vector is missing,
\* "deletion" for a left-only pair and "insertion" for a right-only pair.
C19_OneDiffPerPair ==
    dresp.status # 0 =>
        /\ dresp.status = 200
        /\ Len(dresp.alignment) = Len(aligned)
        /\ \A k \in 1..Len(aligned) : ExpectedDiff(aligned[k], dresp.alignment[k])

C19_Witness ==
    /\ dresp.status = 200
    /\ \E k \in 1..Len(dresp.alignment) :
           /\ dresp.alignment[k].status = "changes"
           /\ dresp.alignment[k].changes # <<>>
    /\ \E k \in 1..Len(dresp.alignment) : dresp.alignment[k].status = "unknown"
    /\ \E k \in 1..Len(dresp.alignment) :
           dresp.alignment[k].status \in {"deletion", "insertion"}

(***************************************************************************)
(* The hierarchy claims.                                                   *)
(***************************************************************************)
\* The key of a (word, lang_code) pair; the root of a call made without a
\* language code has none.
PairKey(word, lang_code) ==
    [k \in 1..Len(word) |-> LowerChar(word[k])]
    \o <<"_">>
    \o [k \in 1..Len(lang_code) |-> LowerChar(lang_code[k])]

RootKeys(request) ==
    IF request.lang_code = NoneStr
    THEN {}
    ELSE {PairKey(request.word, request.lang_code)}

\* No node below has a key met earlier on its path from the root.
RECURSIVE NoKeyTwiceBelow(_, _)
NoKeyTwiceBelow(children, onPath) ==
    \A k \in 1..Len(children) :
        LET key == PairKey(children[k].word, children[k].lang_code)
        IN  /\ key \notin onPath
            /\ NoKeyTwiceBelow(children[k].children, onPath \cup {key})

RECURSIVE TreeSize(_)
TreeSize(children) ==
    SumSeq([k \in 1..Len(children) |-> 1 + TreeSize(children[k].children)])

\* An etymology template of the entry names the word as ancestor, by the
\* word form or by the transliteration, whatever the case.
NamesAsAncestor(entry, word) ==
    \E k \in 1..Len(entry.etymology_templates) :
        \E form \in {entry.etymology_templates[k].a3, entry.etymology_templates[k].tr} :
            /\ form \notin {NoneStr, <<>>}
            /\ lower(strip(form)) = lower(strip(word))

\* The tree in which the children of a node are the entries of the index,
\* in its order, that name the node's word as ancestor and are not visited
\* yet; only the entries under the root are held to the language asked for.
RECURSIVE CitingTree(_, _, _, _)
RECURSIVE CitingScan(_, _, _, _, _, _)
CitingTree(word, filter, depth, seen) ==
    IF depth >= DepthCap
    THEN [children |-> <<>>, visited |-> seen]
    ELSE CitingScan(word, filter, depth, seen, 1, <<>>)

CitingScan(word, filter, depth, seen, k, results) ==
    IF k > Len(index)
    THEN [children |-> results, visited |-> seen]
    ELSE LET key   == index[k][1]
             entry == LineAt(corpus, index[k][2])
             asked == \/ filter \in {NoneStr, <<>>}
                      \/ EndsWith(key, <<"_">> \o lower(filter))
         IN  IF asked /\ key \notin seen /\ entry.kind = "entry"
                /\ NamesAsAncestor(entry, word)
             THEN LET sub == CitingTree(entry.word, NoneStr, depth + 1,
                                        seen \cup {key})
                  IN  CitingScan(word, filter, depth, sub.visited, k + 1,
                                 Append(results,
                                        [word      |-> entry.word,
                                         lang_code |-> entry.lang_code,
                                         expansion |-> entry.expansion,
                                         children  |-> sub.children]))
             ELSE CitingScan(word, filter, depth, seen, k + 1, results)

\* C23: in the tree returned by build_descendant_hierarchy the children of
\* every node, the root and each expanded child below the depth cap, are all
\* the not-yet-visited indexed entries with an etymology template whose
\* ancestor word or transliteration is the node's word up to case; the
\* language filter restricts only the entries the caller asked to filter,
\* and a child's own descendants in other languages are still found.
C23_ChildrenAreAllCitingEntries ==
    tpc = "done" =>
        tree.result.children =
            CitingTree(tree.request.word, tree.request.lang_code, 0, {}).children

\* The tree the stack of activation records leaves is the one the function
\* computes, in which each recursive call is held to the language of the
\* child it expands.
TreeIsTheFunctionsTree ==
    tpc = "done" =>
        tree.result.children =
            build_descendant_hierarchy(tree.request.word, tree.request.lang_code,
                                       0, {}, index, corpus).children

\* Levels of nodes below the root.
RECURSIVE Height(_)
Height(children) ==
    IF children = <<>> THEN 0
    ELSE 1 + Max2(Height(Head(children).children), Height(Tail(children)) - 1)

\* The nodes n levels below the parent of children.
RECURSIVE NodesAtLevel(_, _)
NodesAtLevel(children, n) ==
    IF n = 1
    THEN {children[k] : k \in 1..Len(children)}
    ELSE UNION {NodesAtLevel(children[k].children, n - 1) : k \in 1..Len(children)}

\* C24: the depth of the tree returned by build_descendant_hierarchy is
\* capped: no node lies more than max_depth levels below the root, and a
\* call made at depth >= max_depth returns a node with no children without
\* scanning the index.
C24_DepthIsCapped ==
    /\ \A i \in 1..Len(stack) :
          /\ stack[i].depth = i - 1
          /\ stack[i].depth <= DepthCap
          /\ stack[i].depth >= DepthCap =>
                stack[i].pos = 1 /\ stack[i].results = <<>>
    /\ tpc = "done" =>
          /\ Height(tree.result.children) <= DepthCap
          /\ \A node \in NodesAtLevel(tree.result.children, DepthCap) :
                node.children = <<>>

\* A node lies at the cap and an entry that names its word as ancestor, in
\* its language and not visited, was left out of the tree.
C24_Witness ==
    /\ tpc = "done"
    /\ \E node \in NodesAtLevel(tree.result.children, DepthCap) :
          \E k \in 1..Len(index) :
              /\ index[k][1] \notin visited
              /\ EndsWith(index[k][1], <<"_">> \o lower(node.lang_code))
              /\ NamesAsAncestor(LineAt(corpus, index[k][2]), node.word)

(***************************************************************************)
(* The claims about the scan of the corpus.                                *)
(***************************************************************************)
\* The entries the longest-words leaderboard is drawn from, by their place
\* in the file, and the triple of each.
Qualifying(c) ==
    {i \in 1..Len(c) :
        /\ IsKeyedEntry(c[i])
        /\ [k \in 1..Len(c[i].lang_code) |-> LowerChar(c[i].lang_code[k])]
               \notin SIGN_LANG_CODES
        /\ c[i].pos \notin {"phrase", "Phrase"}}

TripleOf(line) ==
    <<Len(line.word),
      [k \in 1..Len(line.word) |-> LowerChar(line.word[k])],
      [k \in 1..Len(line.lang_code) |-> LowerChar(line.lang_code[k])]>>

BoardTriple(row) == <<row.length, row.word, row.lang_code>>

Min2(x, y) == IF x <= y THEN x ELSE y

\* The rows of the board are the triples of the entries chosen, each as
\* often as it was chosen.
SameTriples(board, c, chosen) ==
    \A i \in chosen :
        Cardinality({k \in 1..Len(board) : BoardTriple(board[k]) = TripleOf(c[i])})
        = Cardinality({j \in chosen : TripleOf(c[j]) = TripleOf(c[i])})

RECURSIVE Decodable(_)
Decodable(c) ==
    IF c = <<>> THEN <<>>
    ELSE (IF Head(c).kind = "entry" THEN <<Head(c)>> ELSE <<>>) \o Decodable(Tail(c))

HasBadLine(c) == \E i \in 1..Len(c) : c[i].kind # "entry"

\* C22: a corpus line that fails to decode never aborts
\* build_index_from_jsonl: the line is skipped, it contributes no index key,
\* leaderboard entry or descendant edge, and every other line is indexed at
\* the byte offset it has in the file.
C22_BadLineIsSkipped ==
    /\ bpc # "raised"
    /\ (bpc = "done" /\ HasBadLine(corpus)) =>
          /\ \A i \in 1..Len(corpus) :
                (/\ IsKeyedEntry(corpus[i])
                 /\ \A j \in 1..(i - 1) :
                       ~(IsKeyedEntry(corpus[j]) /\ KeyOf(corpus[j]) = KeyOf(corpus[i])))
                => \E k \in 1..Len(files.index) :
                       files.index[k] = <<KeyOf(corpus[i]), LineOffset(corpus, i)>>
          /\ \A k \in 1..Len(files.index) :
                \E i \in 1..Len(corpus) :
                    IsKeyedEntry(corpus[i]) /\ KeyOf(corpus[i]) = files.index[k][1]
          /\ files.longest_words = BuiltFiles(Decodable(corpus)).longest_words
          /\ files.most_translations = BuiltFiles(Decodable(corpus)).most_translations
          /\ files.most_descendants = BuiltFiles(Decodable(corpus)).most_descendants
          /\ locals.descendant_links =
                ScanFrom(NoLocals, Decodable(corpus), 1).descendant_links

\* The same for the lines that are text but not JSON.
C22_NotJsonIsSkipped ==
    (\A i \in 1..Len(corpus) : corpus[i].kind # "not_utf8") => C22_BadLineIsSkipped

C22_NotJsonWitness ==
    /\ bpc = "done"
    /\ Len(corpus) = MaxLines
    /\ corpus[2].kind = "truncated"
    /\ Len(files.index) = 2

(***************************************************************************)
(* The claims about the routes.                                            *)
(***************************************************************************)
\* The index has the key of the request.
KeyPresent == PairKey(resp.word, resp.lang_code) \in Keys(index)

\* The record the index has for the request.
EntryAsked == LineAt(corpus, Get(index, PairKey(resp.word, resp.lang_code)))

\* Some key of the index is of the word of the request.
WordPresent ==
    \E k \in 1..Len(index) :
        StartsWith(index[k][1],
                   [j \in 1..Len(resp.word) |-> LowerChar(resp.word[j])] \o <<"_">>)

NoHeadTemplate(entry) ==
    \A k \in 1..Len(entry.head_templates) : entry.head_templates[k].name # "head"

NoAncestorTemplate(entry) ==
    \A k \in 1..Len(entry.etymology_templates) :
        entry.etymology_templates[k].a3 \in {NoneStr, <<>>}

\* C12: find_root_ancestor on an entry without a head template (and so
\* without a next entry to go to) returns the word of the entry after zero
\* steps and without reading a record.
C12_ZeroStepWalk ==
    (/\ resp.endpoint \in {"/descendant-tree", "/descendant-paths-from-root"}
     /\ resp.status = 200
     /\ KeyPresent
     /\ EntryAsked.kind = "entry"
     /\ NoAncestorTemplate(EntryAsked)
     /\ NoHeadTemplate(EntryAsked)) =>
        /\ resp.ancestor.word = EntryAsked.word
        /\ resp.ancestor.steps = 0
        /\ resp.ancestor.reads = 0
        /\ ~resp.ancestor.raised
        /\ resp.root = EntryAsked.word

C12_Witness ==
    /\ resp.endpoint = "/descendant-tree"
    /\ resp.status = 200
    /\ KeyPresent
    /\ EntryAsked.kind = "entry"
    /\ NoAncestorTemplate(EntryAsked)
    /\ NoHeadTemplate(EntryAsked)
    /\ EntryAsked.head_templates # <<>>
    /\ EntryAsked.etymology_text
    /\ resp.ancestor.reads = 0
    /\ Len(index) >= 2

\* C13: a lookup miss never raises: when the key, or the root word, is not
\* in the index, lookup and descendant_tree answer 404 and
\* descendant_tree_from_root and descendant_paths answer a tree, or a list
\* of paths, that holds the root only; none answers 500.
C13_MissIsNotAnError ==
    /\ (resp.endpoint \in {"/word-data", "/descendant-tree"} /\ ~KeyPresent) =>
           resp.status = 404
    /\ (resp.endpoint = "/descendant-tree-from-root" /\ ~WordPresent) =>
           /\ resp.status = 200
           /\ resp.root = resp.word
           /\ resp.children = <<>>
    /\ (resp.endpoint = "/descendant-paths-from-root" /\ ~WordPresent) =>
           /\ resp.status = 200
           /\ Len(resp.paths) = 1
           /\ Len(resp.paths[1]) = 1
           /\ resp.paths[1][1].word = resp.word

\* The keys of the index whose record cannot be parsed.
CorruptKeys ==
    {index[k][1] : k \in {j \in 1..Len(index) :
                              LineAt(corpus, index[j][2]).kind # "entry"}}

\* The index without the keys in gone.
RECURSIVE IndexWithout(_, _)
IndexWithout(idx, gone) ==
    IF idx = <<>> THEN <<>>
    ELSE (IF Head(idx)[1] \in gone THEN <<>> ELSE <<Head(idx)>>)
         \o IndexWithout(Tail(idx), gone)

Place(key) == CHOOSE k \in 1..Len(index) : index[k][1] = key

\* C14: build_descendant_hierarchy skips an index key whose record cannot
\* be parsed and goes on: the tree is the tree of the same index without
\* that key, and the caller sees no error.
C14_CorruptRecordSkipped ==
    (resp.endpoint = "/descendant-tree-from-root" /\ CorruptKeys # {}) =>
        /\ resp.status = 200
        /\ resp.children =
               build_descendant_hierarchy(resp.word, resp.lang_code, 0, {},
                   IndexWithout(index, CorruptKeys), corpus).children

C14_Witness ==
    /\ resp.endpoint = "/descendant-tree-from-root"
    /\ resp.status = 200
    /\ \E bad \in CorruptKeys : \E k \in 1..Len(resp.children) :
           /\ Place(bad) < Place(PairKey(resp.children[k].word,
                                         resp.children[k].lang_code))
           /\ EndsWith(bad, <<"_">> \o
                  [j \in 1..Len(resp.lang_code) |-> LowerChar(resp.lang_code[j])])

\* Some indexed entry under the head carries an etymology text.
HasNextUnder(head) ==
    \E k \in 1..Len(index) :
        /\ StartsWith(index[k][1],
                      [j \in 1..Len(head) |-> LowerChar(head[j])] \o <<"_">>)
        /\ LineAt(corpus, index[k][2]).kind = "entry"
        /\ LineAt(corpus, index[k][2]).etymology_text

\* The head of an entry: args["head"] of its first head template named
\* "head", its word when that is missing, none without such a template.
HeadFor(entry) ==
    LET named == {k \in 1..Len(entry.head_templates) :
                     entry.head_templates[k].name = "head"}
        first == CHOOSE k \in named : \A j \in named : k <= j
    IN  IF named = {} THEN NoneStr
        ELSE IF entry.head_templates[first].head \in {NoneStr, <<>>}
        THEN entry.word
        ELSE entry.head_templates[first].head

\* C26: find_root_ancestor terminates on every finite index: each iteration
\* stops (no head, head already visited, or no indexed entry under the head
\* with an etymology text) or adds a new head to the visited set; it
\* advances only to an entry with an etymology text and returns the word of
\* the last entry reached.
C26_AncestorWalkEnds ==
    LET a    == resp.ancestor
        last == a.trail[Len(a.trail)]
    IN  (a.trail # <<>> /\ ~a.raised) =>
            /\ \A i, j \in 1..Len(a.heads) : i # j => a.heads[i] # a.heads[j]
            /\ a.steps = Len(a.trail) - 1
            /\ a.steps <= Len(a.heads)
            /\ Len(a.heads) <= Len(corpus)
            /\ \A i \in 2..Len(a.trail) :
                  /\ a.trail[i].kind = "entry"
                  /\ a.trail[i].etymology_text
                  /\ \E k \in 1..Len(index) :
                        /\ LineAt(corpus, index[k][2]) = a.trail[i]
                        /\ StartsWith(index[k][1],
                               [j \in 1..Len(a.heads[i - 1]) |->
                                   LowerChar(a.heads[i - 1][j])] \o <<"_">>)
            /\ a.word = last.word
            /\ \/ HeadFor(last) \in {NoneStr, <<>>}
               \/ /\ Len(a.heads) = a.steps
                  /\ \E i \in 1..Len(a.heads) : a.heads[i] = HeadFor(last)
               \/ /\ Len(a.heads) = a.steps + 1
                  /\ a.heads[Len(a.heads)] = HeadFor(last)
                  /\ ~HasNextUnder(HeadFor(last))

\* The walk took two steps and met a head it had visited.
C26_Witness ==
    /\ resp.status = 200
    /\ ~resp.ancestor.raised
    /\ resp.ancestor.steps >= 2
    /\ Len(resp.ancestor.heads) = resp.ancestor.steps
    /\ \E i \in 1..Len(resp.ancestor.heads) :
          resp.ancestor.heads[i] = HeadFor(resp.ancestor.trail[Len(resp.ancestor.trail)])

\* C27: a corrupt (unparseable) record met by find_root_ancestor while it
\* scans the candidate keys is skipped and the walk goes on with the
\* remaining candidates; it is never fatal for the traversal and
\* descendant_tree does not fail because of it.
C27_AncestorWalkSkipsCorruptRecords ==
    (/\ resp.endpoint = "/descendant-tree"
     /\ KeyPresent
     /\ EntryAsked.kind = "entry"
     /\ CorruptKeys # {}) =>
        /\ resp.status = 200
        /\ ~resp.ancestor.raised
        /\ NoAncestorTemplate(EntryAsked) =>
              resp.ancestor.word =
                  find_root_ancestor(EntryAsked, IndexWithout(index, CorruptKeys),
                                     corpus).word

\* The etymology templates of the record asked for that carry a language
\* and a word, in the order of the record.
RECURSIVE Carrying(_)
Carrying(templates) ==
    IF templates = <<>> THEN <<>>
    ELSE (IF /\ Head(templates).a2 \notin {NoneStr, <<>>}
             /\ Head(templates).a3 \notin {NoneStr, <<>>}
          THEN <<Head(templates)>> ELSE <<>>)
         \o Carrying(Tail(templates))

TemplatesAsked == IF KeyPresent THEN EntryAsked.etymology_templates ELSE <<>>

Missing(ipa) == ipa \in {NoneStr, <<>>}

\* C28: build_ancestry_chain returns the starting word first with drift 0,
\* then one link per etymology template that carries both an ancestor
\* language and an ancestor word, in the template order of the record; the
\* drift of a link is computed between the transcription of the previous
\* link and that of this ancestor and is 0 whenever one of the two is
\* missing or the distance computation fails.
C28_ChainFollowsTheTemplates ==
    (resp.endpoint = "/ancestry-chain" /\ resp.status = 200) =>
        LET chain == resp.chain
            tpls  == Carrying(TemplatesAsked)
        IN  /\ Len(chain) = 1 + Len(tpls)
            /\ chain[1].word = resp.word
            /\ chain[1].lang_code = resp.lang_code
            /\ chain[1].drift = NoDistance
            /\ \A k \in 1..Len(tpls) :
                  /\ chain[k + 1].word = tpls[k].a3
                  /\ chain[k + 1].lang_code = tpls[k].a2
                  /\ chain[k + 1].drift =
                        IF \/ Missing(chain[k].ipa)
                           \/ Missing(chain[k + 1].ipa)
                           \/ resp.distance = "raises"
                        THEN NoDistance
                        ELSE [computed |-> TRUE, from |-> chain[k].ipa,
                              to |-> chain[k + 1].ipa]

\* A chain of three links over a template that carries no language: one
\* drift is computed and one is 0 for a missing transcription.
C28_Witness ==
    /\ resp.endpoint = "/ancestry-chain" /\ resp.status = 200
    /\ Len(resp.chain) = 3
    /\ Len(TemplatesAsked) = 3
    /\ resp.distance = "ok"
    /\ Missing(resp.chain[2].ipa)
    /\ ~Missing(resp.chain[3].ipa)
    /\ resp.chain[3].drift = NoDistance

\* The same chain with both transcriptions at hand: the drift is computed.
C28_DriftComputed ==
    /\ resp.endpoint = "/ancestry-chain" /\ resp.status = 200
    /\ Len(resp.chain) = 3
    /\ resp.chain[3].drift.computed
    /\ resp.chain[3].drift.from = resp.chain[2].ipa

\* The leaves below the parent of children.
RECURSIVE Leaves(_)
Leaves(children) ==
    SumSeq([k \in 1..Len(children) |->
               IF children[k].children = <<>> THEN 1 ELSE Leaves(children[k].children)])

\* The steps are the nodes met on the way from one of children to a leaf.
RECURSIVE IsBranch(_, _)
IsBranch(children, steps) ==
    /\ steps # <<>>
    /\ \E k \in 1..Len(children) :
          /\ Head(steps).word = children[k].word
          /\ Head(steps).lang_code = children[k].lang_code
          /\ "expansion" \in DOMAIN Head(steps) =>
                Head(steps).expansion = children[k].expansion
          /\ IF Len(steps) = 1
             THEN children[k].children = <<>>
             ELSE IsBranch(children[k].children, Tail(steps))

\* One path per leaf, each from the root step down the edges of the tree to
\* a leaf; the single path of the root alone when the tree has no children.
OnePathPerLeaf ==
    /\ Len(resp.paths) = Max2(1, Leaves(resp.children))
    /\ \A k \in 1..Len(resp.paths) :
          /\ resp.paths[k] # <<>>
          /\ resp.paths[k][1].word = resp.root
          /\ IF resp.children = <<>>
             THEN Len(resp.paths[k]) = 1
             ELSE IsBranch(resp.children, Tail(resp.paths[k]))
    /\ \A j, k \in 1..Len(resp.paths) : j # k => resp.paths[j] # resp.paths[k]

StepFields == {"word", "lang_code", "expansion"}

FlatteningFollowsTheTree ==
    (resp.endpoint = "/descendant-paths-from-root" /\ resp.status = 200) =>
        /\ OnePathPerLeaf
        /\ \A k \in 1..Len(resp.paths) : \A i \in 2..Len(resp.paths[k]) :
              DOMAIN resp.paths[k][i] = StepFields

\* The hops the chain of the request owes: the entry (or its stub) and one
\* per etymology template with a language and a word.
HopsOwed ==
    IF KeyPresent
    THEN 1 + Cardinality({k \in 1..Len(EntryAsked.etymology_templates) :
                /\ EntryAsked.etymology_templates[k].a2 \notin {NoneStr, <<>>}
                /\ EntryAsked.etymology_templates[k].a3 \notin {NoneStr, <<>>}})
    ELSE 1

\* C16: when the estimator fails or is unavailable, at any step of setting
\* up or making the call, ai_estimate_ipa yields no estimate and
\* build_ancestry_chain still returns the full chain: no exception reaches
\* the caller.
C16_EstimatorFailureDegrades ==
    (/\ resp.endpoint = "/ancestry-chain"
     /\ resp.estimator # "ok"
     /\ CorruptKeys = {}) =>
        /\ resp.status = 200
        /\ Len(resp.chain) = HopsOwed
        /\ \A k \in 1..Len(resp.chain) :
               resp.chain[k].estimated => resp.chain[k].ipa = NoneStr

\* C10: build_descendant_hierarchy ends with a finite tree, also on a
\* corpus with an A -> B -> A cycle, and on no root-to-node path of the
\* tree does the same (word, lang) key occur twice.
C10_NoKeyTwiceOnAPath ==
    tpc = "done" =>
        /\ TreeSize(tree.result.children) <= Len(index)
        /\ NoKeyTwiceBelow(tree.result.children, RootKeys(tree.request))

\* Every call of build_descendant_hierarchy returns.
C10_Terminates == (tpc = "run") ~> (tpc = "done")


(***************************************************************************)
(* The claims about requests in flight at the same time.                   *)
(***************************************************************************)
\* What request r's traversal returns when it runs alone on the loaded index.
Alone(r) ==
    build_descendant_hierarchy(calls[r].tree.request.word,
                               calls[r].tree.request.lang_code,
                               0, {}, index, corpus).children

\* The keys the traversal of request r has marked visited are keys below
\* its own activation records or in its own results, never another call's:
\* the keys it would mark when running alone.
AloneVisited(r) ==
    build_descendant_hierarchy(calls[r].tree.request.word,
                               calls[r].tree.request.lang_code,
                               0, {}, index, corpus).visited

\* C29: under any interleaving of concurrent lookup, traversal and
\* alignment requests, no request changes the in-memory index after load,
\* and each request returns the same result as when it runs alone: a
\* finished traversal holds the tree and the visited set its call builds
\* on its own, a running one has marked only keys of its own call, the
\* lookup answers what get_word_data answers and the alignment is the
\* alignment of its two inputs.
C29_RequestsAreIndependent ==
    /\ [][index' = index]_vars
    /\ [](\A r \in Requests :
            /\ calls[r].tpc = "done" =>
                   /\ calls[r].tree.result.children = Alone(r)
                   /\ calls[r].visited = AloneVisited(r)
            /\ calls[r].tpc = "run" => calls[r].visited \subseteq AloneVisited(r))
    /\ [](resp.endpoint = "/word-data" =>
            LET alone == get_word_data(index, corpus, resp.word, resp.lang_code)
            IN  resp.status = alone.status /\ resp.data = alone.data)
    /\ [](apc = "done" => aligned = align_segments(seg1, seg2))

\* Two traversals ran at the same time over the same keys: one has returned
\* a tree with nodes in it while the other, in the middle of its loop, had
\* already marked a key the first one also emitted; a lookup and an
\* alignment were served meanwhile.
C29_Witness ==
    /\ calls[1].tpc = "done"
    /\ calls[1].tree.result.children # <<>>
    /\ calls[2].tpc = "run"
    /\ calls[1].visited \cap calls[2].visited # {}
    /\ resp.endpoint = "/word-data"
    /\ apc = "done"


(***************************************************************************)
(* The claim about the visited set of one top-level call.  A node of the   *)
(* returned tree is taken with the places, in index.items(), of the nodes  *)
(* on its path from the root: the loop of the node at path p tests the key *)
(* at place k at the moment p \o <<k>>, and the calls made from that test   *)
(* run before the same loop tests the key at place k + 1.                  *)
(***************************************************************************)
PlaceOf(key, idx) == CHOOSE k \in 1..Len(idx) : idx[k][1] = key

\* The nodes of the tree from children[k] on, in the order they were
\* emitted, each with the path of the node it hangs under.
RECURSIVE Emitted(_, _, _)
Emitted(children, under, k) ==
    IF k > Len(children)
    THEN <<>>
    ELSE LET node  == children[k]
             key   == PairKey(node.word, node.lang_code)
             place == PlaceOf(key, index)
         IN  <<[key |-> key, word |-> node.word, lang_code |-> node.lang_code,
                under |-> under, place |-> place]>>
             \o Emitted(node.children, Append(under, place), 1)
             \o Emitted(children, under, k + 1)

EmittedNodes == Emitted(tree.result.children, <<>>, 1)

\* The calls of the traversal: the top-level one and one per emitted node,
\* each with the word and the language filter of its loop.
Loops ==
    {[word |-> tree.request.word, lang_code |-> tree.request.lang_code,
      path |-> <<>>]}
    \cup {[word |-> EmittedNodes[i].word, lang_code |-> EmittedNodes[i].lang_code,
           path |-> Append(EmittedNodes[i].under, EmittedNodes[i].place)]
          : i \in DOMAIN EmittedNodes}

\* The loop would recurse into the node's entry, were it not visited: the
\* loop runs (its call is above the depth cap) and the entry cites its word.
Claims(loop, node) ==
    /\ Len(loop.path) < max_depth
    /\ Matches([Frame(loop.word, loop.lang_code, Len(loop.path))
                   EXCEPT !.pos = node.place], index, corpus, {})

\* Moment p comes before moment q.
Before(p, q) ==
    \/ Len(p) < Len(q) /\ SubSeq(q, 1, Len(p)) = p
    \/ \E k \in 1..Min2(Len(p), Len(q)) :
          /\ SubSeq(p, 1, k - 1) = SubSeq(q, 1, k - 1)
          /\ p[k] < q[k]

\* C30: within one top-level call of build_descendant_hierarchy every
\* index key is emitted as a tree node at most once in the whole returned
\* tree, and an entry that cites several nodes of the tree hangs under the
\* one whose loop reached its key first.
C30_KeyEmittedOnceInTheTree ==
    tpc = "done" =>
        /\ \A i, j \in DOMAIN EmittedNodes :
               i # j => EmittedNodes[i].key # EmittedNodes[j].key
        /\ \A i \in DOMAIN EmittedNodes : \A loop \in Loops :
               (Claims(loop, EmittedNodes[i]) /\ loop.path # EmittedNodes[i].under) =>
                   Before(Append(EmittedNodes[i].under, EmittedNodes[i].place),
                          Append(loop.path, EmittedNodes[i].place))

\* A finished tree holds an entry that cites two of its nodes, of
\* different words, and it hangs under one of them only.
C30_Witness ==
    /\ tpc = "done"
    /\ \E i \in DOMAIN EmittedNodes : \E mine, other \in Loops :
          /\ mine.path = EmittedNodes[i].under
          /\ other.path # mine.path
          /\ other.word # mine.word
          /\ Claims(mine, EmittedNodes[i])
          /\ Claims(other, EmittedNodes[i])

====
